---- MODULE Spec2Model ----
(***************************************************************************)
(* The WebSocket front of the external-engine server: AuthManager and      *)
(* UserSession (server/auth.go), ConnectionManager (server/connection.go), *)
(* MessageHandler and the per-connection loop of                           *)
(* WebSocketServer.HandleWebSocket (server/websocket.go).                  *)
(*                                                                         *)
(* Every connection is served by its own goroutine, so a connection has a  *)
(* position pc[c].  A handler is cut into steps exactly where it touches   *)
(* state shared with other goroutines: taking a mutex, and each read or    *)
(* write of ConnectionManager.engineLocked / lockHolder.  The latter are   *)
(* single steps because RemoveConnection calls releaseEngineLockInternal   *)
(* while holding only m.mu, not m.engineLock, so its accesses interleave   *)
(* with the ones TryAcquireEngineLock and ReleaseEngineLock make under     *)
(* m.engineLock.                                                           *)
(***************************************************************************)
EXTENDS Integers, Sequences, FiniteSets, TLC

\* Number of connection slots (distinct *websocket.Conn values alive at once).
NumConns == 2

Conns == 1..NumConns

\* The nil *websocket.Conn; also "mutex not held".
NoConn == 0

maxFailedAttempts == 3

\* make(chan string, 10)
InputChanCap == 10

\* make(chan string, 100)
OutputChanCap == 100

\* UCIEngine.inputChan: make(chan string, 10)
EngineInputCap == 10

\* The passkey the AuthManager was built with; immutable afterwards.
passKey == "s3cretKey0"

\* The nil line of the output bridge.
NoLine == [n |-> 0, text |-> << >>]

VARIABLES
    authManager,      \* AuthManager: requireAuthWrite, requireAuthRead, localhostBypass
    connections,      \* ConnectionManager.connections (its key set)
    session,          \* the UserSession of each registered connection
    engineLocked,     \* ConnectionManager.engineLocked
    lockHolder,       \* ConnectionManager.lockHolder
    engineLock,       \* ConnectionManager.engineLock: the goroutine holding it
    mu,               \* ConnectionManager.mu: the goroutine holding it for writing
    engineInputChan,  \* MessageHandler.engineInputChan (buffered channel)
    pc,               \* position of each connection's goroutine
    cur,              \* the message the goroutine is handling
    reply,            \* the response HandleMessage returned ("" = none)
    heldAtRecv,       \* history: the connection was lockHolder when its unlock arrived
    scanned,          \* the lines UCIEngine.readOutput has scanned from stdout, in order
    outputChan,       \* UCIEngine.outputChan (buffered channel)
    bridge,           \* bridgeEngineOutput: position, line, connections left to range
                      \* over, the one being sent to, those its warnings name, and
                      \* its engineNameSet
    engineName,       \* MessageHandler.engineName
    lastLine,         \* history: number of the last engine line written to the socket
    unsubAcked,       \* history: unsubok was written to the socket, no sub handled since
    sent,             \* the number of UCI texts the client of each connection has sent
    peer,             \* conn.RemoteAddr() of each connection, where the caller records it
    inputChan,        \* UCIEngine.inputChan (buffered channel)
    writer,           \* UCIEngine.writeInput: "running", or "stopped" after a write error
    lastWritten,      \* history: for each sender, the number of its last text written to
                      \* the subprocess's stdin
    uciEngine,        \* the UCIEngine of main.go: stopChan, stoppedChan, the reader
                      \* goroutine, the subprocess (cmd) and what it was told on stdin,
                      \* and the position of the Stop call
    manager,          \* EngineManager: engines (its key set), activeEngine, activeType
    engineState,      \* each registered engine object: "new", "running", "stopped", "restarted"
    switch,           \* the SetActiveEngine call in progress (it holds EngineManager.mu)
    answer,           \* what the last call on the EngineManager returned
    settings,         \* Evaluator.settings, an IntelligenceSettings
    game,             \* the position given to the evaluator: its number of valid moves
    candidates,       \* the caller's candidate list: the MoveCandidate objects it points to
    returned,         \* the list the last ApplyIntelligence returned, and which slice it is
    passes,           \* the number of ApplyIntelligence calls made on the list
    args,             \* the arguments of a call of one of the program's functions
    result            \* the function called on args, how far it is, and what it returned

\* The output path: what readOutput and bridgeEngineOutput own.
outputSide == <<scanned, outputChan, bridge, engineName>>

\* The input path behind engineInputChan: what bridgeEngineInput and writeInput own,
\* and the life cycle of the engine they feed.
inputSide == <<inputChan, writer, lastWritten, uciEngine>>

\* engine.EngineManager and its engines.
managerSide == <<manager, engineState, switch, answer>>

\* intelligence.Evaluator, its inputs and its result.
evaluatorSide == <<settings, game, candidates, returned, passes>>

\* A call of a function that reads and writes nothing but its arguments.
callSide == <<args, result>>

\* The packages main.go does not wire into the server, and the functions
\* checked by themselves.
library == <<managerSide, evaluatorSide, callSide>>

\* What the goroutines of the engine side own, and the library.
backEnd == <<outputSide, inputSide, library>>

\* What each client has seen on its socket, and sent.
wire == <<lastLine, unsubAcked, sent, peer>>

vars == <<authManager, connections, session, engineLocked, lockHolder, engineLock,
          mu, engineInputChan, pc, cur, reply, heldAtRecv, backEnd, wire>>

\* The WebSocket server and the engine it drives.
server == <<authManager, connections, session, engineLocked, lockHolder, engineLock,
            mu, engineInputChan, pc, cur, reply, heldAtRecv, outputSide, inputSide, wire>>

-----------------------------------------------------------------------------
(* Inputs *)

\* The k-th UCI text of the client in connection slot c (0: a client that
\* has left; the server's own startup commands).  The text names its
\* sender and its number, so that what arrives can be told apart.
Cmd(c, k) == <<"position", c, k>>

\* conn.RemoteAddr().String(): host and port of the peer.
RemoteAddrs ==
    { [host |-> "127.0.0.1", port |-> "51000"],
      [host |-> "::1",       port |-> "51000"],
      [host |-> "10.0.0.7",  port |-> "51000"] }

NoAddr == [host |-> "", port |-> ""]

\* A received message after strings.TrimSpace and strings.Split(message, " ").
NoMsg == << >>
AuthMsgs == { <<"auth">>, <<"auth", passKey>>, <<"auth", "wrongkey">>, <<"auth", "", passKey>> }
UCIMsgs == { <<"go">> }

-----------------------------------------------------------------------------
(* server/auth.go *)

NewUserSession(autoAuth) ==
    [isAuthenticated |-> autoAuth, incorrectAttempts |-> 0,
     isSubscribed |-> FALSE, hasLock |-> FALSE]

\* Variant: the bypass setting is not looked at.
IsLocalhostConnection_AnyBypass(remoteAddr) ==
    remoteAddr.host \in {"127.0.0.1", "::1", "localhost"}

\* net.SplitHostPort, then the three loopback names.
IsLocalhostConnection(remoteAddr) ==
    /\ authManager.localhostBypass
    /\ remoteAddr.host \in {"127.0.0.1", "::1", "localhost"}

ValidateAuth(providedKey) == providedKey = passKey

\* Variant: the write-auth requirement is never reported.
RequiresAuthForWrite_Never == FALSE

RequiresAuthForWrite == authManager.requireAuthWrite

RequiresAuthForRead == authManager.requireAuthRead

IsAuthenticated(c) == session[c].isAuthenticated

\* Variant: blocked only after one more failure.
IsBlocked_OneLate(c) == session[c].incorrectAttempts > maxFailedAttempts

IsBlocked(c) == session[c].incorrectAttempts >= maxFailedAttempts

Authenticate(s) == [s EXCEPT !.isAuthenticated = TRUE]

\* Variant: a failed attempt also drops the authentication.
IncrementFailedAttempts_Deauth(s) ==
    [s EXCEPT !.incorrectAttempts = @ + 1, !.isAuthenticated = FALSE]

IncrementFailedAttempts(s) == [s EXCEPT !.incorrectAttempts = @ + 1]

HasLock(c) == session[c].hasLock

\* Variant: Subscribe without the already-subscribed check.
Subscribe_Unchecked(s) == [ok |-> TRUE, session |-> [s EXCEPT !.isSubscribed = TRUE]]

\* UserSession.Subscribe: the result and the session it leaves.
Subscribe(s) ==
    IF s.isSubscribed
      THEN [ok |-> FALSE, session |-> s]
      ELSE [ok |-> TRUE, session |-> [s EXCEPT !.isSubscribed = TRUE]]

\* UserSession.Unsubscribe: the result and the session it leaves.
Unsubscribe(s) ==
    IF ~s.isSubscribed
      THEN [ok |-> FALSE, session |-> s]
      ELSE [ok |-> TRUE, session |-> [s EXCEPT !.isSubscribed = FALSE]]

-----------------------------------------------------------------------------
(* The engine side before its first line: NewUCIEngine, and                *)
(* bridgeEngineOutput waiting on the output channel.                       *)

\* NewUCIEngine and Start: both channels open, the subprocess and the reader
\* goroutine running, nothing written to stdin, no name read, Stop not called.
Started ==
    [stopChan |-> "open", stoppedChan |-> "open", reader |-> "running", cmd |-> "running",
     stdin |-> "", Stop |-> "idle", engineName |-> "", starts |-> 1]

InitInputSide ==
    /\ inputChan = << >>
    /\ writer = "running"
    /\ lastWritten = [c \in Conns \cup {NoConn} |-> 0]
    /\ uciEngine = Started

\* engine.NewEngineManager: nothing registered, no active engine, no call.
NoEngine == "nil"

InitManagerSide ==
    /\ manager = [engines |-> {}, activeEngine |-> NoEngine, activeType |-> ""]
    /\ engineState = [t \in {} |-> "new"]
    /\ switch = [pc |-> "idle", engineType |-> "", stopped |-> NoEngine, err |-> ""]
    /\ answer = [call |-> "", engine |-> NoEngine, err |-> ""]

\* No list has been given to an evaluator, and none returned.
NoResult == [list |-> << >>, slice |-> ""]

\* NewDefaultIntelligenceSettings, as far as ApplyIntelligence reads it.
DefaultIntelligenceSettings ==
    [IntelligenceEnabled |-> FALSE, AvoidLowIntelligence |-> FALSE,
     LowIntelligenceThreshold |-> <<-3, 2>>, AggressivenessContempt |-> <<1, 1>>,
     CapturePreference |-> <<1, 1>>, CastlePreference |-> <<1, 1>>,
     EnPassantPreference |-> <<1, 1>>, PromotionPreference |-> <<1, 1>>]

InitEvaluatorSide ==
    /\ settings = DefaultIntelligenceSettings
    /\ game = [validMoves |-> 20]
    /\ candidates = << >>
    /\ returned = NoResult
    /\ passes = 0

\* No function has been called.
NoCall == [fn |-> "", value |-> << >>]

InitCallSide ==
    /\ args = << >>
    /\ result = NoCall

InitLibrary == InitManagerSide /\ InitEvaluatorSide /\ InitCallSide

InitBackEnd ==
    /\ scanned = << >>
    /\ outputChan = << >>
    /\ bridge = [pc |-> "recv", line |-> NoLine, todo |-> {}, conn |-> NoConn,
                 warned |-> {}, engineNameSet |-> FALSE]
    /\ engineName = "Unknown"
    /\ InitInputSide
    /\ InitLibrary

\* Nothing has been written to any socket, or sent.
InitWire ==
    /\ lastLine = [c \in Conns |-> 0]
    /\ unsubAcked = [c \in Conns |-> FALSE]
    /\ sent = [c \in Conns |-> 0]
    /\ peer = [c \in Conns |-> NoAddr]

\* BroadcastToSubscribers holds m.mu for reading.
muReadHeld == bridge.pc \in {"range", "send"}

-----------------------------------------------------------------------------
(* The state after construction: NewAuthManager, NewConnectionManager,     *)
(* make(chan string, 10); no connection accepted yet.                      *)

Init ==
    /\ authManager \in [requireAuthWrite : BOOLEAN, requireAuthRead : BOOLEAN,
                        localhostBypass : BOOLEAN]
    /\ connections = {}
    /\ session = [c \in Conns |-> NewUserSession(FALSE)]
    /\ engineLocked = FALSE
    /\ lockHolder = NoConn
    /\ engineLock = NoConn
    /\ mu = NoConn
    /\ engineInputChan = << >>
    /\ pc = [c \in Conns |-> "closed"]
    /\ cur = [c \in Conns |-> NoMsg]
    /\ reply = [c \in Conns |-> ""]
    /\ heldAtRecv = [c \in Conns |-> FALSE]
    /\ InitBackEnd
    /\ InitWire

\* HandleMessage returned (response, shouldRespond) for message m.
Return(c, m, response) ==
    /\ pc' = [pc EXCEPT ![c] = "respond"]
    /\ cur' = [cur EXCEPT ![c] = m]
    /\ reply' = [reply EXCEPT ![c] = response]

\* HandleMessage goes on in a ConnectionManager call at position next.
Goto(c, m, next) ==
    /\ pc' = [pc EXCEPT ![c] = next]
    /\ cur' = [cur EXCEPT ![c] = m]
    /\ reply' = reply

lockState == <<engineLocked, lockHolder, engineLock>>

-----------------------------------------------------------------------------
(* server/websocket.go: accept *)

\* Upgrade, NewUserSession(autoAuth), ConnectionManager.AddConnection (under m.mu).
AddConnection(c, remoteAddr) ==
    /\ pc[c] = "closed"
    /\ mu = NoConn
    /\ ~muReadHeld
    /\ connections' = connections \cup {c}
    /\ session' = [session EXCEPT ![c] = NewUserSession(IsLocalhostConnection(remoteAddr))]
    /\ pc' = [pc EXCEPT ![c] = "read"]
    /\ UNCHANGED <<backEnd, lastLine, unsubAcked, sent, authManager, lockState, mu,
                   engineInputChan, cur, reply, heldAtRecv>>

\* A client connects from any address; the address is not kept.
Accepts(c) == \E remoteAddr \in RemoteAddrs : AddConnection(c, remoteAddr) /\ UNCHANGED peer

\* A client connects from any address, which is kept.
AcceptsFrom(c) ==
    \E remoteAddr \in RemoteAddrs :
        AddConnection(c, remoteAddr) /\ peer' = [peer EXCEPT ![c] = remoteAddr]

-----------------------------------------------------------------------------
(* MessageHandler.HandleMessage: the handlers that finish in one step *)

\* message == "" after TrimSpace
handleEmpty(c) ==
    /\ pc[c] = "read"
    /\ Return(c, NoMsg, "")
    /\ UNCHANGED <<backEnd, wire, authManager, connections, session, lockState, mu, engineInputChan, heldAtRecv>>

handleWhoAreYou(c) ==
    /\ pc[c] = "read"
    /\ Return(c, <<"whoareyou">>, "iam chesshook-intermediaryv1")
    /\ UNCHANGED <<backEnd, wire, authManager, connections, session, lockState, mu, engineInputChan, heldAtRecv>>

handleWhatEngine(c) ==
    /\ pc[c] = "read"
    /\ IF RequiresAuthForRead /\ ~IsAuthenticated(c)
         THEN Return(c, <<"whatengine">>, "autherr")
         ELSE Return(c, <<"whatengine">>, "engine " \o engineName)
    /\ UNCHANGED <<backEnd, wire, authManager, connections, session, lockState, mu, engineInputChan, heldAtRecv>>

\* Variant: an auth command without a key counts as a failed attempt.
handleAuth_CountsMissingKey(c, parts) ==
    /\ pc[c] = "read"
    /\ IF Len(parts) < 2
         THEN /\ Return(c, parts, "autherr")
              /\ session' = [session EXCEPT ![c] = IncrementFailedAttempts(@)]
         ELSE IF IsBlocked(c)
         THEN /\ Return(c, parts, "autherr")
              /\ session' = session
         ELSE IF ValidateAuth(parts[2])
         THEN /\ Return(c, parts, "authok")
              /\ session' = [session EXCEPT ![c] = Authenticate(@)]
         ELSE /\ Return(c, parts, "autherr")
              /\ session' = [session EXCEPT ![c] = IncrementFailedAttempts(@)]
    /\ UNCHANGED <<backEnd, wire, authManager, connections, lockState, mu, engineInputChan, heldAtRecv>>

handleAuth(c, parts) ==
    /\ pc[c] = "read"
    /\ IF Len(parts) < 2
         THEN /\ Return(c, parts, "autherr")
              /\ session' = session
         ELSE IF IsBlocked(c)
         THEN /\ Return(c, parts, "autherr")
              /\ session' = session
         ELSE IF ValidateAuth(parts[2])
         THEN /\ Return(c, parts, "authok")
              /\ session' = [session EXCEPT ![c] = Authenticate(@)]
         ELSE /\ Return(c, parts, "autherr")
              /\ session' = [session EXCEPT ![c] = IncrementFailedAttempts(@)]
    /\ UNCHANGED <<backEnd, wire, authManager, connections, lockState, mu, engineInputChan, heldAtRecv>>

\* Variant: a full channel is reported to the sender.
handleUCICommand_ReportFull(c, message) ==
    /\ pc[c] = "read"
    /\ IF RequiresAuthForWrite /\ ~IsAuthenticated(c)
         THEN /\ Return(c, message, "autherr")
              /\ engineInputChan' = engineInputChan
         ELSE IF Len(engineInputChan) < InputChanCap
         THEN /\ Return(c, message, "")
              /\ engineInputChan' = Append(engineInputChan, message)
         ELSE /\ Return(c, message, "busy")
              /\ engineInputChan' = engineInputChan
    /\ UNCHANGED <<backEnd, lastLine, unsubAcked, peer, authManager, connections, session, lockState,
                   mu, heldAtRecv>>

\* select { case h.engineInputChan <- message: ... default: ... }
\* (What the client has sent is the caller's to say.)
handleUCICommand(c, message) ==
    /\ pc[c] = "read"
    /\ IF RequiresAuthForWrite /\ ~IsAuthenticated(c)
         THEN /\ Return(c, message, "autherr")
              /\ engineInputChan' = engineInputChan
         ELSE /\ Return(c, message, "")
              /\ engineInputChan' = IF Len(engineInputChan) < InputChanCap
                                      THEN Append(engineInputChan, message)
                                      ELSE engineInputChan
    /\ UNCHANGED <<backEnd, lastLine, unsubAcked, peer, authManager, connections, session, lockState,
                   mu, heldAtRecv>>

-----------------------------------------------------------------------------
(* MessageHandler: sub and unsub.  After a successful Subscribe or         *)
(* Unsubscribe the handler calls ConnectionManager.GetSubscriberCount for  *)
(* its log line, which takes m.mu for reading.                             *)

\* Variant: sub is not held back by read-auth.
handleSubscribe_Unchecked(c) ==
    /\ pc[c] = "read"
    /\ session' = [session EXCEPT ![c] = Subscribe(@).session]
    /\ IF Subscribe(session[c]).ok
         THEN /\ Goto(c, <<"sub">>, "count")
              /\ unsubAcked' = [unsubAcked EXCEPT ![c] = FALSE]
         ELSE /\ Return(c, <<"sub">>, "suberr")
              /\ unsubAcked' = unsubAcked
    /\ UNCHANGED <<backEnd, lastLine, sent, peer, authManager, connections, lockState, mu, engineInputChan, heldAtRecv>>

handleSubscribe(c) ==
    /\ pc[c] = "read"
    /\ IF RequiresAuthForRead /\ ~IsAuthenticated(c)
         THEN /\ Return(c, <<"sub">>, "autherr")
              /\ UNCHANGED <<session, unsubAcked>>
         ELSE /\ session' = [session EXCEPT ![c] = Subscribe(@).session]
              /\ IF Subscribe(session[c]).ok
                   THEN /\ Goto(c, <<"sub">>, "count")
                        /\ unsubAcked' = [unsubAcked EXCEPT ![c] = FALSE]
                   ELSE /\ Return(c, <<"sub">>, "suberr")
                        /\ unsubAcked' = unsubAcked
    /\ UNCHANGED <<backEnd, lastLine, sent, peer, authManager, connections, lockState, mu, engineInputChan, heldAtRecv>>

handleUnsubscribe(c) ==
    /\ pc[c] = "read"
    /\ IF RequiresAuthForRead /\ ~IsAuthenticated(c)
         THEN /\ Return(c, <<"unsub">>, "autherr")
              /\ session' = session
         ELSE /\ session' = [session EXCEPT ![c] = Unsubscribe(@).session]
              /\ IF Unsubscribe(session[c]).ok
                   THEN Goto(c, <<"unsub">>, "count")
                   ELSE Return(c, <<"unsub">>, "unsuberr")
    /\ UNCHANGED <<backEnd, wire, authManager, connections, lockState, mu, engineInputChan, heldAtRecv>>

\* m.mu.RLock(); count the subscribed sessions; RUnlock; return "subok" / "unsubok".
GetSubscriberCount(c) ==
    /\ pc[c] = "count"
    /\ mu = NoConn
    /\ Return(c, cur[c], IF cur[c] = <<"sub">> THEN "subok" ELSE "unsubok")
    /\ UNCHANGED <<backEnd, wire, authManager, connections, session, lockState, mu, engineInputChan, heldAtRecv>>

-----------------------------------------------------------------------------
(* MessageHandler.handleLock and ConnectionManager.TryAcquireEngineLock *)

handleLock(c) ==
    /\ pc[c] = "read"
    /\ IF RequiresAuthForWrite /\ ~IsAuthenticated(c)
         THEN Return(c, <<"lock">>, "autherr")
         ELSE Goto(c, <<"lock">>, "acquire")
    /\ UNCHANGED <<backEnd, wire, authManager, connections, session, lockState, mu, engineInputChan, heldAtRecv>>

\* m.engineLock.Lock(); if m.engineLocked { return false }
TryAcquireEngineLock(c) ==
    /\ pc[c] = "acquire"
    /\ engineLock = NoConn
    /\ IF engineLocked
         THEN /\ Return(c, cur[c], "lockerr")
              /\ engineLock' = engineLock
         ELSE /\ Goto(c, cur[c], "acquire_locked")
              /\ engineLock' = c
    /\ UNCHANGED <<backEnd, wire, authManager, connections, session, engineLocked, lockHolder, mu,
                   engineInputChan, heldAtRecv>>

\* m.engineLocked = true
TryAcquire_SetLocked(c) ==
    /\ pc[c] = "acquire_locked"
    /\ engineLocked' = TRUE
    /\ Goto(c, cur[c], "acquire_holder")
    /\ UNCHANGED <<backEnd, wire, authManager, connections, session, lockHolder, engineLock, mu,
                   engineInputChan, heldAtRecv>>

\* m.lockHolder = conn
TryAcquire_SetHolder(c) ==
    /\ pc[c] = "acquire_holder"
    /\ lockHolder' = c
    /\ Goto(c, cur[c], "acquire_session")
    /\ UNCHANGED <<backEnd, wire, authManager, connections, session, engineLocked, engineLock, mu,
                   engineInputChan, heldAtRecv>>

\* m.mu.RLock(); connection.session.AcquireLock(); the deferred unlocks; return true
TryAcquire_Session(c) ==
    /\ pc[c] = "acquire_session"
    /\ mu = NoConn
    /\ session' = IF c \in connections
                    THEN [session EXCEPT ![c].hasLock = TRUE]
                    ELSE session
    /\ engineLock' = NoConn
    /\ Return(c, cur[c], "lockok")
    /\ UNCHANGED <<backEnd, wire, authManager, connections, engineLocked, lockHolder, mu,
                   engineInputChan, heldAtRecv>>

-----------------------------------------------------------------------------
(* ConnectionManager.releaseEngineLockInternal, one shared-memory access   *)
(* per step.  Its two callers differ in the mutex they hold and in where   *)
(* they go on: at, no and yes are positions of the caller.                 *)

\* !m.engineLocked
release_ReadLocked(c, at, no, yes) ==
    /\ pc[c] = at
    /\ pc' = [pc EXCEPT ![c] = IF engineLocked THEN yes ELSE no]
    /\ UNCHANGED <<engineLocked, lockHolder>>

\* Variant: the holder is not compared with the caller.
release_ReadHolder_Unchecked(c, at, no, yes) ==
    /\ pc[c] = at
    /\ pc' = [pc EXCEPT ![c] = yes]
    /\ UNCHANGED <<engineLocked, lockHolder>>

\* m.lockHolder != conn
release_ReadHolder(c, at, no, yes) ==
    /\ pc[c] = at
    /\ pc' = [pc EXCEPT ![c] = IF lockHolder = c THEN yes ELSE no]
    /\ UNCHANGED <<engineLocked, lockHolder>>

\* m.engineLocked = false
release_ClearLocked(c, at, next) ==
    /\ pc[c] = at
    /\ engineLocked' = FALSE
    /\ pc' = [pc EXCEPT ![c] = next]
    /\ UNCHANGED lockHolder

\* m.lockHolder = nil; return true
release_ClearHolder(c, at, next) ==
    /\ pc[c] = at
    /\ lockHolder' = NoConn
    /\ pc' = [pc EXCEPT ![c] = next]
    /\ UNCHANGED engineLocked

-----------------------------------------------------------------------------
(* MessageHandler.handleUnlock and ConnectionManager.ReleaseEngineLock *)

handleUnlock(c) ==
    /\ pc[c] = "read"
    /\ IF RequiresAuthForWrite /\ ~IsAuthenticated(c)
         THEN Return(c, <<"unlock">>, "autherr")
         ELSE IF ~HasLock(c)
         THEN Return(c, <<"unlock">>, "unlockerr")
         ELSE Goto(c, <<"unlock">>, "release")
    /\ heldAtRecv' = [heldAtRecv EXCEPT ![c] = (lockHolder = c)]
    /\ UNCHANGED <<backEnd, wire, authManager, connections, session, lockState, mu, engineInputChan>>

\* m.engineLock.Lock(), then the first read of releaseEngineLockInternal
ReleaseEngineLock(c) ==
    /\ engineLock = NoConn
    /\ release_ReadLocked(c, "release", "release_false", "release_holder")
    /\ engineLock' = c
    /\ UNCHANGED <<backEnd, wire, authManager, connections, session, mu, engineInputChan, cur, reply,
                   heldAtRecv>>

Release_ReadHolder(c) ==
    /\ release_ReadHolder(c, "release_holder", "release_false", "release_unlocked")
    /\ UNCHANGED <<backEnd, wire, authManager, connections, session, engineLock, mu, engineInputChan,
                   cur, reply, heldAtRecv>>

Release_ClearLocked(c) ==
    /\ release_ClearLocked(c, "release_unlocked", "release_nil")
    /\ UNCHANGED <<backEnd, wire, authManager, connections, session, engineLock, mu, engineInputChan,
                   cur, reply, heldAtRecv>>

\* the last write, return true, and the deferred m.engineLock.Unlock()
Release_ClearHolder(c) ==
    /\ release_ClearHolder(c, "release_nil", "release_session")
    /\ engineLock' = NoConn
    /\ UNCHANGED <<backEnd, wire, authManager, connections, session, mu, engineInputChan, cur, reply,
                   heldAtRecv>>

\* return false, the deferred m.engineLock.Unlock(), and handleUnlock's "unlockerr"
Release_False(c) ==
    /\ pc[c] = "release_false"
    /\ engineLock' = NoConn
    /\ Return(c, cur[c], "unlockerr")
    /\ UNCHANGED <<backEnd, wire, authManager, connections, session, engineLocked, lockHolder, mu,
                   engineInputChan, heldAtRecv>>

\* session.ReleaseLock(); return "unlockok"
Release_Session(c) ==
    /\ pc[c] = "release_session"
    /\ session' = [session EXCEPT ![c].hasLock = FALSE]
    /\ Return(c, cur[c], "unlockok")
    /\ UNCHANGED <<backEnd, wire, authManager, connections, lockState, mu, engineInputChan, heldAtRecv>>

-----------------------------------------------------------------------------
(* WebSocketServer.HandleWebSocket: the response, and the loop's exits *)

\* connection.Send(response) succeeded, or there was nothing to send
SendResponse(c) ==
    /\ pc[c] = "respond"
    /\ pc' = [pc EXCEPT ![c] = "read"]
    /\ cur' = [cur EXCEPT ![c] = NoMsg]
    /\ reply' = [reply EXCEPT ![c] = ""]
    /\ heldAtRecv' = [heldAtRecv EXCEPT ![c] = FALSE]
    /\ unsubAcked' = [unsubAcked EXCEPT ![c] = @ \/ reply[c] = "unsubok"]
    /\ UNCHANGED <<backEnd, lastLine, sent, peer, authManager, connections, session, lockState, mu,
                   engineInputChan>>

\* connection.Send(response) returned an error: break
SendFailed(c) ==
    /\ pc[c] = "respond"
    /\ reply[c] # ""
    /\ pc' = [pc EXCEPT ![c] = "remove"]
    /\ cur' = [cur EXCEPT ![c] = NoMsg]
    /\ reply' = [reply EXCEPT ![c] = ""]
    /\ heldAtRecv' = [heldAtRecv EXCEPT ![c] = FALSE]
    /\ UNCHANGED <<backEnd, wire, authManager, connections, session, lockState, mu, engineInputChan>>

\* conn.ReadMessage() returned an error: break
ReadFailed(c) ==
    /\ pc[c] = "read"
    /\ pc' = [pc EXCEPT ![c] = "remove"]
    /\ UNCHANGED <<backEnd, wire, authManager, connections, session, lockState, mu, engineInputChan,
                   cur, reply, heldAtRecv>>

-----------------------------------------------------------------------------
(* ConnectionManager.RemoveConnection, run by the deferred cleanup *)

\* m.mu.Lock(); if connection.session.HasLock() { releaseEngineLockInternal(conn) }
RemoveConnection(c) ==
    /\ pc[c] = "remove"
    /\ mu = NoConn
    /\ ~muReadHeld
    /\ mu' = c
    /\ pc' = [pc EXCEPT ![c] = IF HasLock(c) THEN "remove_locked" ELSE "remove_delete"]
    /\ UNCHANGED <<backEnd, wire, authManager, connections, session, lockState, engineInputChan, cur,
                   reply, heldAtRecv>>

Remove_ReadLocked(c) ==
    /\ release_ReadLocked(c, "remove_locked", "remove_delete", "remove_holder")
    /\ UNCHANGED <<backEnd, wire, authManager, connections, session, engineLock, mu, engineInputChan,
                   cur, reply, heldAtRecv>>

Remove_ReadHolder(c) ==
    /\ release_ReadHolder(c, "remove_holder", "remove_delete", "remove_unlocked")
    /\ UNCHANGED <<backEnd, wire, authManager, connections, session, engineLock, mu, engineInputChan,
                   cur, reply, heldAtRecv>>

Remove_ClearLocked(c) ==
    /\ release_ClearLocked(c, "remove_unlocked", "remove_nil")
    /\ UNCHANGED <<backEnd, wire, authManager, connections, session, engineLock, mu, engineInputChan,
                   cur, reply, heldAtRecv>>

Remove_ClearHolder(c) ==
    /\ release_ClearHolder(c, "remove_nil", "remove_delete")
    /\ UNCHANGED <<backEnd, wire, authManager, connections, session, engineLock, mu, engineInputChan,
                   cur, reply, heldAtRecv>>

\* Variant: the removal ends only once it has m.engineLock as well.
Remove_Delete_Locks(c) ==
    /\ pc[c] = "remove_delete"
    /\ engineLock = NoConn
    /\ connections' = connections \ {c}
    /\ session' = [session EXCEPT ![c] = NewUserSession(FALSE)]
    /\ mu' = NoConn
    /\ pc' = [pc EXCEPT ![c] = "closed"]
    /\ lastLine' = [lastLine EXCEPT ![c] = 0]
    /\ unsubAcked' = [unsubAcked EXCEPT ![c] = FALSE]
    /\ UNCHANGED <<backEnd, sent, peer, authManager, lockState, engineInputChan, cur, reply,
                   heldAtRecv>>

\* delete(m.connections, conn); the deferred m.mu.Unlock(); connection.Close().
\* The UserSession and the socket go with the connection.
Remove_Delete(c) ==
    /\ pc[c] = "remove_delete"
    /\ connections' = connections \ {c}
    /\ session' = [session EXCEPT ![c] = NewUserSession(FALSE)]
    /\ mu' = NoConn
    /\ pc' = [pc EXCEPT ![c] = "closed"]
    /\ lastLine' = [lastLine EXCEPT ![c] = 0]
    /\ unsubAcked' = [unsubAcked EXCEPT ![c] = FALSE]
    /\ UNCHANGED <<backEnd, sent, peer, authManager, lockState, engineInputChan, cur, reply,
                   heldAtRecv>>

-----------------------------------------------------------------------------
(* The output path: UCIEngine.readOutput (engine/uci.go), bridgeEngineOutput *)
(* (main.go) and ConnectionManager.BroadcastToSubscribers.  A line is the   *)
(* text the subprocess wrote, as its words, and its number in the           *)
(* subprocess's output.                                                     *)

\* strings.HasPrefix(output, "info") || strings.HasPrefix(output, "bestmove"),
\* on lines whose first word is a UCI keyword.
Broadcastable(text) == text[1] \in {"info", "bestmove"}

\* readOutput returns: defer close(e.stoppedChan), which panics on a channel
\* that is closed already.
readOutput_Return ==
    IF uciEngine.stoppedChan = "closed"
    THEN [uciEngine EXCEPT !.reader = "panicked"]
    ELSE [uciEngine EXCEPT !.reader = "returned", !.stoppedChan = "closed"]

\* if strings.HasPrefix(line, "id name ") { e.engineName = ... }, and after
\* the line select { case <-e.stopChan: return; default: }
readOutput_Line(text) ==
    LET named == IF Len(text) = 3 /\ text[1] = "id" /\ text[2] = "name"
                 THEN [uciEngine EXCEPT !.engineName = text[3]]
                 ELSE uciEngine
    IN  IF uciEngine.stopChan = "closed"
        THEN [readOutput_Return EXCEPT !.engineName = named.engineName]
        ELSE named

\* Variant: the line goes to the head of the channel.
readOutput_Prepend(text) ==
    /\ uciEngine.reader = "running"
    /\ scanned' = Append(scanned, text)
    /\ outputChan' = IF Len(outputChan) < OutputChanCap
                        THEN <<[n |-> Len(scanned) + 1, text |-> text]>> \o outputChan
                        ELSE outputChan
    /\ uciEngine' = readOutput_Line(text)
    /\ UNCHANGED <<engineName, bridge, inputChan, writer, lastWritten, wire, library, authManager, connections,
                   session, lockState, mu, engineInputChan, pc, cur, reply, heldAtRecv>>

\* e.stdout.Scan(); select { case e.outputChan <- line: default: (dropped) };
\* select { case <-e.stopChan: return; default: }
readOutput(text) ==
    /\ uciEngine.reader = "running"
    /\ scanned' = Append(scanned, text)
    /\ outputChan' = IF Len(outputChan) < OutputChanCap
                        THEN Append(outputChan, [n |-> Len(scanned) + 1, text |-> text])
                        ELSE outputChan
    /\ uciEngine' = readOutput_Line(text)
    /\ UNCHANGED <<engineName, bridge, inputChan, writer, lastWritten, wire, library, authManager, connections,
                   session, lockState, mu, engineInputChan, pc, cur, reply, heldAtRecv>>

\* for output := range outputChan { if !engineNameSet && GetEngineName() != "" {
\* SetEngineName(GetEngineName()) }; if HasPrefix ... { BroadcastEngineOutput(output) } }
bridgeEngineOutput ==
    /\ bridge.pc = "recv"
    /\ outputChan # << >>
    /\ outputChan' = Tail(outputChan)
    /\ LET set == ~bridge.engineNameSet /\ uciEngine.engineName # ""
       IN  /\ engineName' = IF set THEN uciEngine.engineName ELSE engineName
           /\ bridge' = IF Broadcastable(Head(outputChan).text)
                        THEN [bridge EXCEPT !.pc = "rlock", !.line = Head(outputChan),
                                            !.engineNameSet = @ \/ set]
                        ELSE [bridge EXCEPT !.engineNameSet = @ \/ set]
    /\ UNCHANGED <<scanned, inputSide, wire, library, authManager, connections, session, lockState, mu,
                   engineInputChan, pc, cur, reply, heldAtRecv>>

\* m.mu.RLock(); for _, connection := range m.connections
BroadcastToSubscribers ==
    /\ bridge.pc = "rlock"
    /\ mu = NoConn
    /\ bridge' = [bridge EXCEPT !.pc = "range", !.todo = connections]
    /\ UNCHANGED <<engineName, scanned, outputChan, inputSide, wire, library, authManager, connections, session, lockState,
                   mu, engineInputChan, pc, cur, reply, heldAtRecv>>

\* The next connection of the range, in the map's order (any), and
\* connection.session.IsSubscribed().
Broadcast_Next(c) ==
    /\ bridge.pc = "range"
    /\ c \in bridge.todo
    /\ bridge' = IF session[c].isSubscribed
                    THEN [bridge EXCEPT !.pc = "send", !.todo = @ \ {c}, !.conn = c]
                    ELSE [bridge EXCEPT !.todo = @ \ {c}]
    /\ UNCHANGED <<engineName, scanned, outputChan, inputSide, wire, library, authManager, connections, session, lockState,
                   mu, engineInputChan, pc, cur, reply, heldAtRecv>>

\* connection.Send(message) wrote the line to the socket.
Broadcast_Send ==
    /\ bridge.pc = "send"
    /\ lastLine' = [lastLine EXCEPT ![bridge.conn] = bridge.line.n]
    /\ bridge' = [bridge EXCEPT !.pc = "range", !.conn = NoConn]
    /\ UNCHANGED <<engineName, scanned, outputChan, inputSide, unsubAcked, sent, peer, library, authManager, connections, session,
                   lockState, mu, engineInputChan, pc, cur, reply, heldAtRecv>>

\* Variant: a failed Send ends the broadcast.
Broadcast_SendFailed_Abort ==
    /\ bridge.pc = "send"
    /\ bridge' = [bridge EXCEPT !.pc = "recv", !.line = NoLine, !.todo = {}, !.conn = NoConn,
                                !.warned = {}]
    /\ UNCHANGED <<engineName, scanned, outputChan, inputSide, wire, library, authManager, connections, session, lockState,
                   mu, engineInputChan, pc, cur, reply, heldAtRecv>>

\* connection.Send(message) returned an error: it is logged, the range goes on.
Broadcast_SendFailed ==
    /\ bridge.pc = "send"
    /\ bridge' = [bridge EXCEPT !.pc = "range", !.conn = NoConn,
                                !.warned = @ \cup {bridge.conn}]
    /\ UNCHANGED <<engineName, scanned, outputChan, inputSide, wire, library, authManager, connections, session, lockState,
                   mu, engineInputChan, pc, cur, reply, heldAtRecv>>

\* The range is over: the deferred m.mu.RUnlock(), back to the channel.
Broadcast_Done ==
    /\ bridge.pc = "range"
    /\ bridge.todo = {}
    /\ bridge' = [bridge EXCEPT !.pc = "recv", !.line = NoLine, !.warned = {}]
    /\ UNCHANGED <<engineName, scanned, outputChan, inputSide, wire, library, authManager, connections, session, lockState,
                   mu, engineInputChan, pc, cur, reply, heldAtRecv>>

-----------------------------------------------------------------------------
(* The input path: bridgeEngineInput (main.go), UCIEngine.SendCommand and   *)
(* UCIEngine.writeInput (engine/uci.go).                                    *)

\* Variant: the bridge takes the newest command of the channel.
bridgeEngineInput_TakesLast ==
    /\ engineInputChan # << >>
    /\ engineInputChan' = SubSeq(engineInputChan, 1, Len(engineInputChan) - 1)
    /\ inputChan' = IF Len(inputChan) < EngineInputCap
                       THEN Append(inputChan, engineInputChan[Len(engineInputChan)])
                       ELSE inputChan
    /\ UNCHANGED <<outputSide, writer, lastWritten, uciEngine, wire, library, authManager, connections, session,
                   lockState, mu, pc, cur, reply, heldAtRecv>>

\* for cmd := range inputChan { uciEngine.SendCommand(cmd) }, and SendCommand's
\* select { case e.inputChan <- cmd: default: "input channel full" }
bridgeEngineInput ==
    /\ engineInputChan # << >>
    /\ engineInputChan' = Tail(engineInputChan)
    /\ inputChan' = IF Len(inputChan) < EngineInputCap
                       THEN Append(inputChan, Head(engineInputChan))
                       ELSE inputChan
    /\ UNCHANGED <<outputSide, writer, lastWritten, uciEngine, wire, library, authManager, connections, session,
                   lockState, mu, pc, cur, reply, heldAtRecv>>

\* case cmd := <-e.inputChan: WriteString(cmd + "\n"), Flush
writeInput ==
    /\ writer = "running"
    /\ inputChan # << >>
    /\ inputChan' = Tail(inputChan)
    /\ lastWritten' = [lastWritten EXCEPT ![Head(inputChan)[2]] = Head(inputChan)[3]]
    /\ uciEngine' = IF Head(inputChan)[1] = "quit" THEN [uciEngine EXCEPT !.stdin = "quit"]
                    ELSE uciEngine
    /\ UNCHANGED <<outputSide, writer, wire, library, authManager, connections, session, lockState, mu,
                   engineInputChan, pc, cur, reply, heldAtRecv>>

\* WriteString or Flush returned an error: the writer goroutine returns.
writeInput_Failed ==
    /\ writer = "running"
    /\ inputChan # << >>
    /\ inputChan' = Tail(inputChan)
    /\ writer' = "stopped"
    /\ UNCHANGED <<outputSide, lastWritten, uciEngine, wire, library, authManager, connections, session, lockState,
                   mu, engineInputChan, pc, cur, reply, heldAtRecv>>

-----------------------------------------------------------------------------

\* Accepting a connection, answering, and tearing down a connection that
\* does not hold the lock.
Lifecycle(c) ==
    \/ Accepts(c)
    \/ SendResponse(c)
    \/ SendFailed(c)
    \/ ReadFailed(c)
    \/ RemoveConnection(c)
    \/ Remove_Delete(c)

\* releaseEngineLockInternal as run by RemoveConnection.
RemoveHeld(c) ==
    \/ Remove_ReadLocked(c)
    \/ Remove_ReadHolder(c)
    \/ Remove_ClearLocked(c)
    \/ Remove_ClearHolder(c)

\* lock and unlock.
LockCommands(c) ==
    \/ handleLock(c)
    \/ TryAcquireEngineLock(c)
    \/ TryAcquire_SetLocked(c)
    \/ TryAcquire_SetHolder(c)
    \/ TryAcquire_Session(c)
    \/ handleUnlock(c)
    \/ ReleaseEngineLock(c)
    \/ Release_ReadHolder(c)
    \/ Release_ClearLocked(c)
    \/ Release_ClearHolder(c)
    \/ Release_False(c)
    \/ Release_Session(c)

\* The commands that touch only the sender's session.
SessionCommands(c) ==
    \/ handleEmpty(c)
    \/ handleWhoAreYou(c)
    \/ handleWhatEngine(c)
    \/ \E parts \in AuthMsgs : handleAuth(c, parts)
    \/ handleSubscribe(c)
    \/ handleUnsubscribe(c)
    \/ GetSubscriberCount(c)

\* Any other text.
UCICommands(c) == \E message \in UCIMsgs : handleUCICommand(c, message) /\ UNCHANGED sent

Next ==
    \E c \in Conns :
        Lifecycle(c) \/ RemoveHeld(c) \/ LockCommands(c) \/ SessionCommands(c) \/ UCICommands(c)

\* The whole front: every client may send every message.
Spec == Init /\ [][Next]_vars

(***************************************************************************)
(* The claims are checked under three specifications that bound what the   *)
(* clients send and fix the settings the sent commands never read.  Every  *)
(* behaviour of each is a behaviour, or the tail of one, of Spec.          *)
(***************************************************************************)

\* How far short of full engineInputChan is when the run starts.
Headroom == 2

\* -authread keeps its default; the input bridge does not run (the engine is
\* busy) and earlier connections have left engineInputChan Headroom short of
\* full.
InitLock ==
    /\ authManager \in [requireAuthWrite : BOOLEAN, requireAuthRead : {FALSE},
                        localhostBypass : BOOLEAN]
    /\ connections = {}
    /\ session = [c \in Conns |-> NewUserSession(FALSE)]
    /\ engineLocked = FALSE
    /\ lockHolder = NoConn
    /\ engineLock = NoConn
    /\ mu = NoConn
    /\ engineInputChan = [i \in 1..(InputChanCap - Headroom) |-> <<"go">>]
    /\ pc = [c \in Conns |-> "closed"]
    /\ cur = [c \in Conns |-> NoMsg]
    /\ reply = [c \in Conns |-> ""]
    /\ heldAtRecv = [c \in Conns |-> FALSE]
    /\ InitBackEnd
    /\ InitWire

\* Clients send lock, unlock and UCI text.
NextLock ==
    \E c \in Conns : Lifecycle(c) \/ RemoveHeld(c) \/ LockCommands(c) \/ UCICommands(c)

SpecLock == InitLock /\ [][NextLock]_vars

\* Clients send auth, lock, unlock and UCI text.
NextAuth ==
    \E c \in Conns :
        \/ Lifecycle(c) \/ RemoveHeld(c) \/ LockCommands(c) \/ UCICommands(c)
        \/ \E parts \in AuthMsgs : handleAuth(c, parts)

SpecAuth == InitLock /\ [][NextAuth]_vars

\* The output bridge at work.
OutputBridge ==
    \/ bridgeEngineOutput
    \/ BroadcastToSubscribers
    \/ \E c \in Conns : Broadcast_Next(c)
    \/ Broadcast_Send
    \/ Broadcast_SendFailed
    \/ Broadcast_Done

\* sub and unsub.
SubCommands(c) == handleSubscribe(c) \/ handleUnsubscribe(c) \/ GetSubscriberCount(c)

\* How many lines the subprocess writes.
MaxLines == 2

\* What the subprocess writes while it searches.
SearchTexts == { <<"info", "depth", "1">>, <<"bestmove", "e2e4">> }

\* Neither auth requirement is set and no connection is pre-authenticated;
\* the engine has yet to write its first line.
InitBroadcast ==
    /\ Init
    /\ authManager = [requireAuthWrite |-> FALSE, requireAuthRead |-> FALSE,
                      localhostBypass |-> FALSE]

\* Clients subscribe and unsubscribe while the engine writes info lines.
NextBroadcast ==
    \/ \E c \in Conns : Lifecycle(c) \/ SubCommands(c)
    \/ \E text \in SearchTexts : Len(scanned) < MaxLines /\ readOutput(text)
    \/ OutputBridge

SpecBroadcast == InitBroadcast /\ [][NextBroadcast]_vars

\* What the subprocess answers to uci and isready before main starts the
\* output bridge.
StartupText == <<"option", "name", "Hash", "type", "spin">>

\* How far short of full outputChan is when the bridge starts.
OutputRoom == 1

\* The number of startup lines waiting in outputChan when the bridge starts.
StartupLines == OutputChanCap - OutputRoom

\* main has started the engine, sent it uci and isready and slept; the
\* subprocess has answered with its startup lines, which wait in outputChan;
\* the bridges start.
InitDelivery ==
    /\ authManager = [requireAuthWrite |-> FALSE, requireAuthRead |-> FALSE,
                      localhostBypass |-> FALSE]
    /\ connections = {}
    /\ session = [c \in Conns |-> NewUserSession(FALSE)]
    /\ engineLocked = FALSE
    /\ lockHolder = NoConn
    /\ engineLock = NoConn
    /\ mu = NoConn
    /\ engineInputChan = << >>
    /\ pc = [c \in Conns |-> "closed"]
    /\ cur = [c \in Conns |-> NoMsg]
    /\ reply = [c \in Conns |-> ""]
    /\ heldAtRecv = [c \in Conns |-> FALSE]
    /\ scanned = [i \in 1..StartupLines |-> StartupText]
    /\ outputChan = [i \in 1..StartupLines |-> [n |-> i, text |-> StartupText]]
    /\ bridge = [pc |-> "recv", line |-> NoLine, todo |-> {}, conn |-> NoConn,
                 warned |-> {}, engineNameSet |-> FALSE]
    /\ engineName = "Unknown"
    /\ InitInputSide
    /\ InitLibrary
    /\ InitWire

\* The output bridge over a transport that delivers.
DeliveryBridge ==
    \/ bridgeEngineOutput
    \/ BroadcastToSubscribers
    \/ \E c \in Conns : Broadcast_Next(c)
    \/ Broadcast_Send
    \/ Broadcast_Done

\* A client that connects, subscribes and stays.
Subscriber(c) ==
    \/ Accepts(c)
    \/ handleSubscribe(c)
    \/ GetSubscriberCount(c)
    \/ SendResponse(c)

\* The subprocess writes up to MaxLines further lines.
Search ==
    \E text \in SearchTexts : Len(scanned) < StartupLines + MaxLines /\ readOutput(text)

NextDelivery == (\E c \in Conns : Subscriber(c)) \/ Search \/ DeliveryBridge

\* The scheduler lets the bridge goroutine and every connection's goroutine run.
FairDelivery ==
    /\ WF_vars(DeliveryBridge)
    /\ \A c \in Conns : WF_vars(GetSubscriberCount(c) \/ SendResponse(c))

SpecDelivery == InitDelivery /\ [][NextDelivery]_vars /\ FairDelivery

\* How many UCI texts the client of one connection slot sends.
MaxCmds == 2

\* The longest candidate list, and the number of evaluations of one list.
MaxCandidates == 2
MaxPasses == 2

\* The flags keep their defaults: write-auth is required and loopback
\* clients are pre-authenticated.  The texts of a client that has left wait
\* in engineInputChan, behind the startup commands of UCIEngine.Initialize
\* that wait in inputChan; both channels are Headroom short of full.
InitInput ==
    /\ authManager = [requireAuthWrite |-> TRUE, requireAuthRead |-> FALSE,
                      localhostBypass |-> TRUE]
    /\ connections = {}
    /\ session = [c \in Conns |-> NewUserSession(FALSE)]
    /\ engineLocked = FALSE
    /\ lockHolder = NoConn
    /\ engineLock = NoConn
    /\ mu = NoConn
    /\ engineInputChan = [i \in 1..(InputChanCap - Headroom) |-> Cmd(NoConn, 0)]
    /\ pc = [c \in Conns |-> "closed"]
    /\ cur = [c \in Conns |-> NoMsg]
    /\ reply = [c \in Conns |-> ""]
    /\ heldAtRecv = [c \in Conns |-> FALSE]
    /\ scanned = << >>
    /\ outputChan = << >>
    /\ bridge = [pc |-> "recv", line |-> NoLine, todo |-> {}, conn |-> NoConn,
                 warned |-> {}, engineNameSet |-> FALSE]
    /\ engineName = "Unknown"
    /\ inputChan = [i \in 1..(EngineInputCap - Headroom) |-> Cmd(NoConn, 0)]
    /\ writer = "running"
    /\ lastWritten = [c \in Conns \cup {NoConn} |-> 0]
    /\ uciEngine = Started
    /\ InitLibrary
    /\ InitWire

\* The client of connection c sends its next UCI text.
ClientSends(c) ==
    /\ sent[c] < MaxCmds
    /\ handleUCICommand(c, Cmd(c, sent[c] + 1))
    /\ sent' = [sent EXCEPT ![c] = @ + 1]

\* The input bridge and the writer at work.
InputBridge == bridgeEngineInput \/ writeInput \/ writeInput_Failed

\* A client that connects, sends UCI texts and leaves.
Sender(c) ==
    \/ Accepts(c)
    \/ ClientSends(c)
    \/ SendResponse(c)
    \/ SendFailed(c)
    \/ ReadFailed(c)
    \/ RemoveConnection(c)
    \/ Remove_Delete(c)

\* Clients send UCI texts while the input path forwards them.
NextInput == (\E c \in Conns : Sender(c)) \/ InputBridge

SpecInput == InitInput /\ [][NextInput]_vars

-----------------------------------------------------------------------------
(* engine.EngineManager (uci.go).  Every method takes EngineManager.mu, so a
   method runs only while no SetActiveEngine call is in progress.  An engine
   object is "new" until Start, "running" after it, "stopped" after Stop
   (stopChan and stoppedChan are closed and never made again), and
   "restarted" when Start runs on a stopped object. *)

EngineTypes == {"stockfish", "leela", "maia", "rodent"}

NoAnswer == [call |-> "", engine |-> NoEngine, err |-> ""]

managerIdle == switch.pc = "idle"

RegisterEngine(engineType) ==
    /\ managerIdle
    /\ IF engineType \in manager.engines
       THEN /\ answer' = [call |-> "RegisterEngine", engine |-> NoEngine,
                          err |-> "already registered"]
            /\ UNCHANGED <<manager, engineState>>
       ELSE /\ manager' = [manager EXCEPT !.engines = @ \cup {engineType}]
            /\ engineState' = [t \in manager.engines \cup {engineType} |->
                                 IF t = engineType THEN "new" ELSE engineState[t]]
            /\ answer' = [call |-> "RegisterEngine", engine |-> NoEngine, err |-> ""]
    /\ UNCHANGED <<switch, server, evaluatorSide, callSide>>

\* The lookup, and the test of m.activeEngine that picks the next step.
SetActiveEngine(engineType) ==
    /\ managerIdle
    /\ answer' = NoAnswer
    /\ IF engineType \notin manager.engines
       THEN switch' = [pc |-> "idle", engineType |-> engineType, stopped |-> NoEngine,
                       err |-> "not registered"]
       ELSE switch' = [pc |-> IF manager.activeEngine # NoEngine THEN "stop" ELSE "start",
                       engineType |-> engineType, stopped |-> NoEngine, err |-> ""]
    /\ UNCHANGED <<manager, engineState, server, evaluatorSide, callSide>>

\* m.activeEngine.Stop() on an engine whose stopChan is open.
SetActiveEngine_Stop ==
    /\ switch.pc = "stop"
    /\ engineState[manager.activeEngine] = "running"
    /\ engineState' = [engineState EXCEPT ![manager.activeEngine] = "stopped"]
    /\ switch' = [switch EXCEPT !.pc = "start", !.stopped = manager.activeEngine]
    /\ UNCHANGED <<manager, answer, server, evaluatorSide, callSide>>

\* m.activeEngine.Stop() on an engine stopped before: close(e.stopChan) of a
\* closed channel panics.
SetActiveEngine_StopPanics ==
    /\ switch.pc = "stop"
    /\ engineState[manager.activeEngine] # "running"
    /\ switch' = [switch EXCEPT !.pc = "panicked"]
    /\ UNCHANGED <<manager, engineState, answer, server, evaluatorSide, callSide>>

\* Variant: the engine is recorded as active as soon as it has started.
SetActiveEngine_Start_Records ==
    /\ switch.pc = "start"
    /\ engineState' = [engineState EXCEPT ![switch.engineType] =
                          IF @ = "new" THEN "running" ELSE "restarted"]
    /\ manager' = [manager EXCEPT !.activeEngine = switch.engineType,
                                  !.activeType = switch.engineType]
    /\ switch' = [switch EXCEPT !.pc = "initialize"]
    /\ UNCHANGED <<answer, server, evaluatorSide, callSide>>

SetActiveEngine_Start ==
    /\ switch.pc = "start"
    /\ engineState' = [engineState EXCEPT ![switch.engineType] =
                          IF @ = "new" THEN "running" ELSE "restarted"]
    /\ switch' = [switch EXCEPT !.pc = "initialize"]
    /\ UNCHANGED <<manager, answer, server, evaluatorSide, callSide>>

\* exec fails: the call returns before it assigns m.activeEngine.
SetActiveEngine_StartFailed ==
    /\ switch.pc = "start"
    /\ switch' = [switch EXCEPT !.pc = "idle", !.err = "failed to start engine"]
    /\ UNCHANGED <<manager, engineState, answer, server, evaluatorSide, callSide>>

SetActiveEngine_Initialize ==
    /\ switch.pc = "initialize"
    /\ manager' = [manager EXCEPT !.activeEngine = switch.engineType,
                                  !.activeType = switch.engineType]
    /\ switch' = [switch EXCEPT !.pc = "idle"]
    /\ UNCHANGED <<engineState, answer, server, evaluatorSide, callSide>>

\* Initialize finds the input channel full: engine.Stop(), and the call
\* returns before it assigns m.activeEngine.
SetActiveEngine_InitializeFailed ==
    /\ switch.pc = "initialize"
    /\ engineState[switch.engineType] = "running"
    /\ engineState' = [engineState EXCEPT ![switch.engineType] = "stopped"]
    /\ switch' = [switch EXCEPT !.pc = "idle", !.err = "failed to initialize engine"]
    /\ UNCHANGED <<manager, answer, server, evaluatorSide, callSide>>

\* The same on an object stopped before: engine.Stop() panics.
SetActiveEngine_InitializeFailedPanics ==
    /\ switch.pc = "initialize"
    /\ engineState[switch.engineType] # "running"
    /\ switch' = [switch EXCEPT !.pc = "panicked"]
    /\ UNCHANGED <<manager, engineState, answer, server, evaluatorSide, callSide>>

GetActiveEngine ==
    /\ managerIdle
    /\ answer' = IF manager.activeEngine = NoEngine
                 THEN [call |-> "GetActiveEngine", engine |-> NoEngine,
                       err |-> "no active engine"]
                 ELSE [call |-> "GetActiveEngine", engine |-> manager.activeEngine,
                       err |-> ""]
    /\ UNCHANGED <<manager, engineState, switch, server, evaluatorSide, callSide>>

\* EngineManager.SendCommand: the engine's SendCommand answers nil, or
\* "input channel full" when its inputChan holds 10 commands.
ManagerSendCommand ==
    /\ managerIdle
    /\ IF manager.activeEngine = NoEngine
       THEN answer' = [call |-> "SendCommand", engine |-> NoEngine,
                       err |-> "no active engine"]
       ELSE \E err \in {"", "input channel full"} :
                answer' = [call |-> "SendCommand", engine |-> manager.activeEngine,
                           err |-> err]
    /\ UNCHANGED <<manager, engineState, switch, server, evaluatorSide, callSide>>

NextManager ==
    \/ \E engineType \in EngineTypes : RegisterEngine(engineType)
    \/ \E engineType \in EngineTypes : SetActiveEngine(engineType)
    \/ SetActiveEngine_Stop
    \/ SetActiveEngine_StopPanics
    \/ SetActiveEngine_Start
    \/ SetActiveEngine_StartFailed
    \/ SetActiveEngine_Initialize
    \/ SetActiveEngine_InitializeFailed
    \/ SetActiveEngine_InitializeFailedPanics
    \/ GetActiveEngine
    \/ ManagerSendCommand

\* A program that only drives an EngineManager.
InitManager == InitInput

SpecManager == InitManager /\ [][NextManager]_vars

-----------------------------------------------------------------------------
(* intelligence.Evaluator (evaluator.go, settings.go) and models.MoveCandidate.
   A float64 is the rational <<numerator, denominator>> in lowest terms with a
   positive denominator; a *int is << >> for nil and <<v>> otherwise. *)

Abs(x) == IF x < 0 THEN -x ELSE x

RECURSIVE GCD(_, _)
GCD(a, b) == IF b = 0 THEN a ELSE GCD(b, a % b)

Rat(n, d) ==
    LET g == GCD(Abs(n), Abs(d))
        sign == IF d < 0 THEN -1 ELSE 1
    IN  <<(sign * n) \div g, (sign * d) \div g>>

Zero == <<0, 1>>
One == <<1, 1>>

Plus(a, b) == Rat(a[1] * b[2] + b[1] * a[2], a[2] * b[2])
Minus(a, b) == Rat(a[1] * b[2] - b[1] * a[2], a[2] * b[2])
Times(a, b) == Rat(a[1] * b[1], a[2] * b[2])
Over(a, b) == Rat(a[1] * b[2], a[2] * b[1])
Less(a, b) == a[1] * b[2] < b[1] * a[2]
LessEq(a, b) == a[1] * b[2] <= b[1] * a[2]

\* int(x): the conversion of a float64 truncates toward zero.
int(x) == IF x[1] < 0 THEN -((-x[1]) \div x[2]) ELSE x[1] \div x[2]

\* utils.IsForcedMate
IsForcedMate(mateIn) == mateIn # << >> /\ mateIn[1] # 0

IsFullyDisabled(s) == ~s.IntelligenceEnabled

ShouldAvoidLowIntelligence(s) == s.IntelligenceEnabled /\ s.AvoidLowIntelligence

GetClampedThreshold(s) ==
    IF Less(s.LowIntelligenceThreshold, <<-3, 1>>) THEN <<-3, 1>>
    ELSE IF Less(<<-1, 1>>, s.LowIntelligenceThreshold) THEN <<-1, 1>>
    ELSE s.LowIntelligenceThreshold

\* models.NewMoveCandidate, with the score and the characteristics the parser
\* fills in.
NewMoveCandidate(score, mateIn, isCapture, isCheck) ==
    [ScoreCP |-> int(Times(score, <<100, 1>>)), ScorePawns |-> score, MateIn |-> mateIn,
     IsCapture |-> isCapture, IsCheck |-> isCheck, IsCastling |-> FALSE,
     IsEnPassant |-> FALSE, IsPromotion |-> FALSE,
     OriginalScorePawns |-> Zero, IntelligenceModified |-> FALSE,
     IntelligenceMultiplier |-> One]

\* Variant: the original score is stored on every modification.
ApplyIntelligenceModification_Overwrites(m, newScorePawns, multiplier) ==
    [m EXCEPT !.OriginalScorePawns = m.ScorePawns,
              !.ScorePawns = newScorePawns,
              !.ScoreCP = int(Times(newScorePawns, <<100, 1>>)),
              !.IntelligenceModified = TRUE,
              !.IntelligenceMultiplier = multiplier]

ApplyIntelligenceModification(m, newScorePawns, multiplier) ==
    [m EXCEPT !.OriginalScorePawns = IF m.IntelligenceModified THEN @ ELSE m.ScorePawns,
              !.ScorePawns = newScorePawns,
              !.ScoreCP = int(Times(newScorePawns, <<100, 1>>)),
              !.IntelligenceModified = TRUE,
              !.IntelligenceMultiplier = multiplier]

\* Variant: the evaluation is multiplied whatever its sign.
applyChessMultiplier_SignBlind(eval, multiplier, isCritical) ==
    IF multiplier = One \/ eval = Zero
    THEN eval
    ELSE LET reduced ==
                 IF ~isCritical THEN multiplier
                 ELSE IF Less(One, multiplier)
                      THEN Plus(One, Times(Minus(multiplier, One), <<3, 10>>))
                      ELSE Minus(One, Times(Minus(One, multiplier), <<3, 10>>))
         IN  Times(eval, reduced)

applyChessMultiplier(eval, multiplier, isCritical) ==
    IF multiplier = One \/ eval = Zero
    THEN eval
    ELSE LET reduced ==
                 IF ~isCritical THEN multiplier
                 ELSE IF Less(One, multiplier)
                      THEN Plus(One, Times(Minus(multiplier, One), <<3, 10>>))
                      ELSE Minus(One, Times(Minus(One, multiplier), <<3, 10>>))
         IN  IF Less(Zero, eval) THEN Times(eval, reduced) ELSE Over(eval, reduced)

\* It has no board to look at, and answers 1.0.
getPieceMultiplier(candidate) == One

getMoveCharacteristicMultiplier(candidate, s) ==
    LET capture == IF candidate.IsCapture THEN s.CapturePreference ELSE One
        castle == IF candidate.IsCastling THEN s.CastlePreference ELSE One
        enPassant == IF candidate.IsEnPassant THEN s.EnPassantPreference ELSE One
        promotion == IF candidate.IsPromotion THEN s.PromotionPreference ELSE One
        check == IF candidate.IsCheck THEN s.AggressivenessContempt ELSE One
    IN  Times(Times(Times(Times(capture, castle), enPassant), promotion), check)

applyMultipliers(candidate, s, g) ==
    LET isCritical == g.validMoves < 3
        totalMultiplier == Times(getPieceMultiplier(candidate),
                                 getMoveCharacteristicMultiplier(candidate, s))
        newScore == applyChessMultiplier(candidate.ScorePawns, totalMultiplier, isCritical)
    IN  ApplyIntelligenceModification(candidate, newScore, totalMultiplier)

\* Variant: every forced mate counts as a mate for the side to move.
absoluteScore_SignBlind(candidate) ==
    [candidate EXCEPT !.ScorePawns = <<1000, 1>>, !.ScoreCP = 100000]

\* The branch of ApplyIntelligence for a forced mate.
absoluteScore(candidate) ==
    LET score == IF candidate.MateIn[1] > 0 THEN <<1000, 1>> ELSE <<-1000, 1>>
    IN  [candidate EXCEPT !.ScorePawns = score,
                          !.ScoreCP = int(Times(score, <<100, 1>>))]

\* Variant: the copy is one candidate short.
cloneCandidates_Short(list) == SubSeq(list, 1, Len(list) - 1)

\* The copy: a new slice of new objects with the same field values.
cloneCandidates(list) == [i \in 1..Len(list) |-> list[i]]

\* The loop of ApplyIntelligence over the caller's objects, in place.
evaluated(list, s, g) ==
    [i \in 1..Len(list) |->
        IF IsForcedMate(list[i].MateIn) THEN absoluteScore(list[i])
        ELSE applyMultipliers(list[i], s, g)]

\* The avoidance check of ApplyIntelligence on the evaluated list.
avoided(list, s) ==
    /\ ShouldAvoidLowIntelligence(s)
    /\ Len(list) > 0
    /\ LessEq(list[1].ScorePawns, GetClampedThreshold(s))

ApplyIntelligence ==
    /\ passes < MaxPasses
    /\ passes' = passes + 1
    /\ IF IsFullyDisabled(settings)
       THEN /\ returned' = [list |-> candidates, slice |-> "candidates"]
            /\ UNCHANGED candidates
       ELSE LET originalCandidates == cloneCandidates(candidates)
                list == evaluated(candidates, settings, game)
            IN  /\ candidates' = list
                /\ returned' = IF avoided(list, settings)
                               THEN [list |-> originalCandidates,
                                     slice |-> "originalCandidates"]
                               ELSE [list |-> list, slice |-> "candidates"]
    /\ UNCHANGED <<settings, game, server, managerSide, callSide>>

\* The inputs: scores below, at and above zero; no mate value, mate value 0,
\* mate for and against; a capture, a check, or neither.
Scores == {<<-2, 1>>, Zero, <<1, 2>>}
Mates == {<< >>, <<0>>, <<2>>, <<-2>>}
Characteristics == {<<FALSE, FALSE>>, <<TRUE, FALSE>>, <<FALSE, TRUE>>}

Candidates ==
    {NewMoveCandidate(score, mateIn, ch[1], ch[2]) :
        score \in Scores, mateIn \in Mates, ch \in Characteristics}

\* Thresholds below, inside and above [-3.0, -1.0]; preferences below, at and
\* above 1.0.
SettingsValues ==
    [IntelligenceEnabled : BOOLEAN, AvoidLowIntelligence : BOOLEAN,
     LowIntelligenceThreshold : {<<-4, 1>>, <<-3, 2>>, <<-1, 2>>},
     AggressivenessContempt : {One, <<3, 2>>},
     CapturePreference : {<<1, 2>>, One, <<2, 1>>},
     CastlePreference : {One}, EnPassantPreference : {One}, PromotionPreference : {One}]

\* The server stands still.
InitIdleServer ==
    /\ authManager = [requireAuthWrite |-> TRUE, requireAuthRead |-> FALSE,
                      localhostBypass |-> TRUE]
    /\ connections = {}
    /\ session = [c \in Conns |-> NewUserSession(FALSE)]
    /\ engineLocked = FALSE
    /\ lockHolder = NoConn
    /\ engineLock = NoConn
    /\ mu = NoConn
    /\ engineInputChan = << >>
    /\ pc = [c \in Conns |-> "closed"]
    /\ cur = [c \in Conns |-> NoMsg]
    /\ reply = [c \in Conns |-> ""]
    /\ heldAtRecv = [c \in Conns |-> FALSE]
    /\ scanned = << >>
    /\ outputChan = << >>
    /\ bridge = [pc |-> "recv", line |-> NoLine, todo |-> {}, conn |-> NoConn,
                 warned |-> {}, engineNameSet |-> FALSE]
    /\ engineName = "Unknown"
    /\ InitInputSide
    /\ InitWire

InitEvaluator ==
    /\ InitIdleServer
    /\ InitManagerSide
    /\ InitCallSide
    /\ settings \in SettingsValues
    /\ game \in [validMoves : {2, 3}]
    /\ candidates \in UNION {[1..n -> Candidates] : n \in 0..MaxCandidates}
    /\ returned = NoResult
    /\ passes = 0

NextEvaluator == ApplyIntelligence

\* A caller that evaluates one list, once or again.
SpecEvaluator == InitEvaluator /\ [][NextEvaluator]_vars

-----------------------------------------------------------------------------
(* applyChessMultiplier (evaluator.go) and
   MultiplierCalculator.ApplyMultiplierReduction (multipliers.go), called on
   an evaluation, a multiplier and the criticality of the position. *)

\* Variant: the multiplier is returned as it is in a critical position too.
ApplyMultiplierReduction_Undamped(multiplier, isCritical) == multiplier

ApplyMultiplierReduction(multiplier, isCritical) ==
    IF ~isCritical THEN multiplier
    ELSE IF Less(One, multiplier)
         THEN Plus(One, Times(Minus(multiplier, One), <<3, 10>>))
         ELSE Minus(One, Times(Minus(One, multiplier), <<3, 10>>))

Call_applyChessMultiplier ==
    /\ result' = [fn |-> "applyChessMultiplier",
                  value |-> applyChessMultiplier(args.eval, args.multiplier,
                                                 args.isCritical)]
    /\ UNCHANGED <<args, server, managerSide, evaluatorSide>>

Call_ApplyMultiplierReduction ==
    /\ result' = [fn |-> "ApplyMultiplierReduction",
                  value |-> ApplyMultiplierReduction(args.multiplier, args.isCritical)]
    /\ UNCHANGED <<args, server, managerSide, evaluatorSide>>

\* The evaluations n/d and the multipliers n/d (above zero) up to these sizes.
MaxNumerator == 3
MaxDenominator == 2

Evals == {Rat(n, d) : n \in (-MaxNumerator)..MaxNumerator, d \in 1..MaxDenominator}
Multipliers == {Rat(n, d) : n \in 1..MaxNumerator, d \in 1..MaxDenominator}

InitMultiplier ==
    /\ InitIdleServer
    /\ InitManagerSide
    /\ InitEvaluatorSide
    /\ args \in [eval : Evals, multiplier : Multipliers, isCritical : BOOLEAN]
    /\ result = NoCall

NextMultiplier == Call_applyChessMultiplier \/ Call_ApplyMultiplierReduction

SpecMultiplier == InitMultiplier /\ [][NextMultiplier]_vars

-----------------------------------------------------------------------------
(* loadConfiguration (main.go) and config.LoadConfig, for one setting at a
   time: what the JSON file says about it (<< >> if there is no file, or the
   file does not name it) and what the command line says (<< >> if the flag is
   not given). *)

\* config.DefaultConfig
DefaultConfig(setting) ==
    CASE setting = "threads" -> 1
      [] setting = "multipv" -> 3
      [] setting = "authwrite" -> TRUE

\* The default of the flag, flag.Lookup(name).DefValue.
DefValue(setting) ==
    CASE setting = "threads" -> 1
      [] setting = "multipv" -> 3
      [] setting = "authwrite" -> TRUE

\* json.Unmarshal into the default configuration.
LoadConfig(setting, file) == IF file = << >> THEN DefaultConfig(setting) ELSE file[1]

loadConfiguration(setting, file, flag) ==
    LET cfg == LoadConfig(setting, file)
        value == IF flag = << >> THEN DefValue(setting) ELSE flag[1]
    IN  IF value # DefValue(setting) THEN value ELSE cfg

Call_loadConfiguration ==
    /\ result' = [fn |-> "loadConfiguration",
                  value |-> loadConfiguration(args.setting, args.file, args.flag)]
    /\ UNCHANGED <<args, server, managerSide, evaluatorSide>>

\* The largest number a file or a flag gives.
MaxSetting == 4

SettingValues(setting) == IF setting = "authwrite" THEN BOOLEAN ELSE 1..MaxSetting

Supplied(setting) == {<< >>} \cup {<<v>> : v \in SettingValues(setting)}

InitConfiguration ==
    /\ InitIdleServer
    /\ InitManagerSide
    /\ InitEvaluatorSide
    /\ \E setting \in {"threads", "multipv", "authwrite"} :
          \E file \in Supplied(setting) : \E flag \in Supplied(setting) :
              args = [setting |-> setting, file |-> file, flag |-> flag]
    /\ result = NoCall

NextConfiguration == Call_loadConfiguration

SpecConfiguration == InitConfiguration /\ [][NextConfiguration]_vars

\* Clients connect, try pass keys, leave and connect again.
NextAccept ==
    \E c \in Conns :
        \/ AcceptsFrom(c)
        \/ \E parts \in AuthMsgs : handleAuth(c, parts)
        \/ SendResponse(c)
        \/ SendFailed(c)
        \/ ReadFailed(c)
        \/ RemoveConnection(c)
        \/ Remove_Delete(c)

SpecAccept == Init /\ [][NextAccept]_vars

-----------------------------------------------------------------------------
(* prepareUCIArgs (main.go).  The text "setoption name N value V" is the
   record of N and V. *)

setoption(name, value) == [name |-> name, value |-> value]

\* Variant: Threads before MultiPV.
prepareUCIArgs_ThreadsFirst(cfg) ==
    (IF cfg.Threads > 1 THEN <<setoption("Threads", cfg.Threads)>> ELSE << >>)
    \o (IF cfg.MultiPV > 1 THEN <<setoption("MultiPV", cfg.MultiPV)>> ELSE << >>)
    \o (IF cfg.Hash > 0 THEN <<setoption("Hash", cfg.Hash)>> ELSE << >>)
    \o cfg.UCIArgs

prepareUCIArgs(cfg) ==
    LET withMultiPV ==
            IF cfg.MultiPV > 1 THEN <<setoption("MultiPV", cfg.MultiPV)>> ELSE << >>
        withThreads ==
            IF cfg.Threads > 1 THEN Append(withMultiPV, setoption("Threads", cfg.Threads))
            ELSE withMultiPV
        withHash ==
            IF cfg.Hash > 0 THEN Append(withThreads, setoption("Hash", cfg.Hash))
            ELSE withThreads
    IN  withHash \o cfg.UCIArgs

Call_prepareUCIArgs ==
    /\ result' = [fn |-> "prepareUCIArgs", value |-> prepareUCIArgs(args)]
    /\ UNCHANGED <<args, server, managerSide, evaluatorSide>>

\* The largest value of MultiPV, Threads and Hash, and the longest list of
\* user-provided commands.
MaxOption == 2
MaxUserArgs == 2

UserArgs == {setoption("Contempt", 0), setoption("Threads", 2)}

InitPrepare ==
    /\ InitIdleServer
    /\ InitManagerSide
    /\ InitEvaluatorSide
    /\ args \in [MultiPV : 0..MaxOption, Threads : 0..MaxOption, Hash : 0..MaxOption,
                 UCIArgs : UNION {[1..n -> UserArgs] : n \in 0..MaxUserArgs}]
    /\ result = NoCall

NextPrepare == Call_prepareUCIArgs

SpecPrepare == InitPrepare /\ [][NextPrepare]_vars

-----------------------------------------------------------------------------
(* UCIEngine.Initialize (uci.go) as main.go calls it on the engine it has
   just started, while the writer goroutine empties the input channel.  A
   command is <<text, NoConn, k>>, k being the place of an option command in
   uciArgs; the empty text is "". *)

UCI == <<"uci", NoConn, 0>>
IsReady == <<"isready", NoConn, 0>>

\* UCIEngine.SendCommand on the channel as it is: the channel after it, and
\* whether the command went in.
SendCommand(chan, cmd) ==
    IF Len(chan) < EngineInputCap
    THEN [chan |-> Append(chan, cmd), ok |-> TRUE]
    ELSE [chan |-> chan, ok |-> FALSE]

Initializing(at) == result.fn = "Initialize" /\ result.value.pc = at

\* e.SendCommand("uci")
Initialize ==
    /\ result = NoCall
    /\ LET send == SendCommand(inputChan, UCI)
       IN  /\ inputChan' = send.chan
           /\ result' = [fn |-> "Initialize",
                         value |-> IF send.ok
                                   THEN [pc |-> "args", i |-> 1, queued |-> <<UCI>>,
                                         err |-> ""]
                                   ELSE [pc |-> "returned", i |-> 1, queued |-> << >>,
                                         err |-> "input channel full"]]
    /\ UNCHANGED <<args, outputSide, writer, lastWritten, uciEngine, wire, managerSide, evaluatorSide,
                   authManager, connections, session, lockState, mu, engineInputChan, pc, cur,
                   reply, heldAtRecv>>

\* for _, arg := range uciArgs { if arg != "" { e.SendCommand(arg) (a failure
\* is logged) } }
Initialize_Arg ==
    /\ Initializing("args")
    /\ result.value.i <= Len(args)
    /\ LET arg == args[result.value.i]
           send == SendCommand(inputChan, arg)
       IN  IF arg[1] # ""
           THEN /\ inputChan' = send.chan
                /\ result' = [result EXCEPT !.value.i = @ + 1,
                                            !.value.queued = IF send.ok THEN Append(@, arg)
                                                             ELSE @]
           ELSE /\ inputChan' = inputChan
                /\ result' = [result EXCEPT !.value.i = @ + 1]
    /\ UNCHANGED <<args, outputSide, writer, lastWritten, uciEngine, wire, managerSide, evaluatorSide,
                   authManager, connections, session, lockState, mu, engineInputChan, pc, cur,
                   reply, heldAtRecv>>

\* e.SendCommand("isready"), and the return.
Initialize_IsReady ==
    /\ Initializing("args")
    /\ result.value.i > Len(args)
    /\ LET send == SendCommand(inputChan, IsReady)
       IN  /\ inputChan' = send.chan
           /\ result' = [result EXCEPT
                            !.value.pc = "returned",
                            !.value.queued = IF send.ok THEN Append(@, IsReady) ELSE @,
                            !.value.err = IF send.ok THEN "" ELSE "input channel full"]
    /\ UNCHANGED <<args, outputSide, writer, lastWritten, uciEngine, wire, managerSide, evaluatorSide,
                   authManager, connections, session, lockState, mu, engineInputChan, pc, cur,
                   reply, heldAtRecv>>

\* The longest list of initialization commands.
MaxUCIArgs == 10

\* Lists of option commands with at most one empty text among them.
UCIArgLists ==
    {[i \in 1..n |-> <<IF i = e THEN "" ELSE "setoption", NoConn, i>>] :
        n \in 0..MaxUCIArgs, e \in 0..MaxUCIArgs}

InitInitialize ==
    /\ InitIdleServer
    /\ InitManagerSide
    /\ InitEvaluatorSide
    /\ args \in UCIArgLists
    /\ result = NoCall

NextInitialize ==
    \/ Initialize
    \/ Initialize_Arg
    \/ Initialize_IsReady
    \/ writeInput
    \/ writeInput_Failed

SpecInitialize == InitInitialize /\ [][NextInitialize]_vars

-----------------------------------------------------------------------------
(* UCIEngine.Stop (uci.go) on the engine main.go started, with the reader
   and the writer goroutine running and the subprocess reading its stdin. *)

Quit == <<"quit", NoConn, 0>>

\* e.SendCommand("quit"): what SendCommand returns is dropped.
Stop ==
    /\ uciEngine.Stop = "idle"
    /\ inputChan' = SendCommand(inputChan, Quit).chan
    /\ uciEngine' = [uciEngine EXCEPT !.Stop = "close"]
    /\ UNCHANGED <<outputSide, writer, lastWritten, wire, library, authManager, connections,
                   session, lockState, mu, engineInputChan, pc, cur, reply, heldAtRecv>>

\* close(e.stopChan), which panics on a channel that is closed already.
Stop_Close ==
    /\ uciEngine.Stop = "close"
    /\ uciEngine' = IF uciEngine.stopChan = "closed"
                    THEN [uciEngine EXCEPT !.Stop = "panicked"]
                    ELSE [uciEngine EXCEPT !.stopChan = "closed", !.Stop = "join"]
    /\ UNCHANGED inputChan
    /\ UNCHANGED <<outputSide, writer, lastWritten, wire, library, authManager, connections,
                   session, lockState, mu, engineInputChan, pc, cur, reply, heldAtRecv>>

\* <-e.stoppedChan
Stop_Join ==
    /\ uciEngine.Stop = "join"
    /\ uciEngine.stoppedChan = "closed"
    /\ uciEngine' = [uciEngine EXCEPT !.Stop = "wait"]
    /\ UNCHANGED inputChan
    /\ UNCHANGED <<outputSide, writer, lastWritten, wire, library, authManager, connections,
                   session, lockState, mu, engineInputChan, pc, cur, reply, heldAtRecv>>

\* e.cmd.Wait(), and the return.
Stop_Wait ==
    /\ uciEngine.Stop = "wait"
    /\ uciEngine.cmd = "exited"
    /\ uciEngine' = [uciEngine EXCEPT !.Stop = "returned"]
    /\ UNCHANGED inputChan
    /\ UNCHANGED <<outputSide, writer, lastWritten, wire, library, authManager, connections,
                   session, lockState, mu, engineInputChan, pc, cur, reply, heldAtRecv>>

\* writeInput's select takes case <-e.stopChan: return.  Go chooses among
\* the ready cases of a select, so a waiting command does not prevent it.
writeInput_Stop ==
    /\ writer = "running"
    /\ uciEngine.stopChan = "closed"
    /\ writer' = "stopped"
    /\ UNCHANGED <<outputSide, inputChan, lastWritten, uciEngine, wire, library, authManager,
                   connections, session, lockState, mu, engineInputChan, pc, cur, reply,
                   heldAtRecv>>

\* e.stdout.Scan() returns false: the subprocess has closed its output.
readOutput_EOF ==
    /\ uciEngine.reader = "running"
    /\ uciEngine.cmd = "exited"
    /\ uciEngine' = readOutput_Return
    /\ UNCHANGED inputChan
    /\ UNCHANGED <<outputSide, writer, lastWritten, wire, library, authManager, connections,
                   session, lockState, mu, engineInputChan, pc, cur, reply, heldAtRecv>>

\* The subprocess has read quit: it exits, which closes its output.
cmd_Exit ==
    /\ uciEngine.cmd = "running"
    /\ uciEngine.stdin = "quit"
    /\ uciEngine' = [uciEngine EXCEPT !.cmd = "exited"]
    /\ UNCHANGED inputChan
    /\ UNCHANGED <<outputSide, writer, lastWritten, wire, library, authManager, connections,
                   session, lockState, mu, engineInputChan, pc, cur, reply, heldAtRecv>>

\* UCIEngine.Start on an engine that Stop has returned from, as
\* SetActiveEngine does when it switches back to an engine: a new subprocess
\* with new pipes and two new goroutines, on the channels NewUCIEngine made.
Start ==
    /\ uciEngine.Stop = "returned"
    /\ uciEngine.starts = 1
    /\ uciEngine' = [uciEngine EXCEPT !.cmd = "running", !.stdin = "", !.reader = "running",
                                      !.Stop = "idle", !.starts = @ + 1]
    /\ writer' = "running"
    /\ UNCHANGED <<outputSide, inputChan, lastWritten, wire, library, authManager, connections,
                   session, lockState, mu, engineInputChan, pc, cur, reply, heldAtRecv>>

\* The engine is stopped while commands wait in both input channels.
InitStop == InitInput

NextStop ==
    \/ Stop
    \/ Stop_Close
    \/ Stop_Join
    \/ Stop_Wait
    \/ bridgeEngineInput
    \/ writeInput
    \/ writeInput_Failed
    \/ writeInput_Stop
    \/ (Len(scanned) < MaxLines /\ readOutput(<<"info", "depth", "1">>))
    \/ readOutput_EOF
    \/ cmd_Exit

SpecStop == InitStop /\ [][NextStop]_vars

\* Every goroutine, Stop and the subprocess go on while they can; which
\* lines the subprocess prints is up to it.
FairStop ==
    /\ WF_vars(Stop \/ Stop_Close \/ Stop_Join \/ Stop_Wait)
    /\ WF_vars(writeInput \/ writeInput_Failed \/ writeInput_Stop)
    /\ WF_vars(readOutput_EOF)
    /\ WF_vars(cmd_Exit)

SpecStopFair == InitStop /\ [][NextStop]_vars /\ FairStop

\* The engine is stopped, and started again.
NextRestart == NextStop \/ Start

SpecRestart == InitStop /\ [][NextRestart]_vars

-----------------------------------------------------------------------------
(* The engine name: the subprocess announces itself, readOutput keeps the
   name, bridgeEngineOutput hands it to the MessageHandler, and clients ask
   whatengine. *)

\* What the subprocess may print while it starts.
NameTexts == {<<"id", "name", "Stockfish">>, <<"id", "name", "Lc0">>, <<"uciok">>}

InitName == InitIdleServer /\ InitLibrary

NextName ==
    \/ \E c \in Conns : Lifecycle(c)
    \/ \E c \in Conns : handleWhatEngine(c)
    \/ (Len(scanned) < MaxLines /\ \E text \in NameTexts : readOutput(text))
    \/ bridgeEngineOutput

SpecName == InitName /\ [][NextName]_vars

-----------------------------------------------------------------------------
(* The ConnectionManager under all of its callers at once: clients connect,
   disconnect, subscribe, lock and unlock while the output bridge
   broadcasts.  Connection.Send takes the connection's own mutex around one
   WriteMessage and nothing else, so a send is one step. *)

\* Clients connect, leave, subscribe, lock and unlock while the engine writes
\* info lines.
NextRegistry ==
    \/ \E c \in Conns : Lifecycle(c) \/ RemoveHeld(c) \/ LockCommands(c) \/ SubCommands(c)
    \/ (Len(scanned) < MaxLines /\ readOutput(<<"info", "depth", "1">>))
    \/ OutputBridge

SpecRegistry == InitBroadcast /\ [][NextRegistry]_vars

-----------------------------------------------------------------------------
(* Evaluator.applyMultipliers by itself, on candidates that name the square
   they move from, positions that say which piece stands there, and
   settings that carry the piece preferences of IntelligenceSettings. *)

Call_applyMultipliers ==
    /\ result = NoCall
    /\ result' = [fn |-> "applyMultipliers",
                  value |-> applyMultipliers(args[1], args[2], args[3])]
    /\ UNCHANGED <<args, server, managerSide, evaluatorSide>>

\* A pawn and a knight, and the squares they stand on.
Board == [square \in {"e2", "g1"} |-> IF square = "e2" THEN "Pawn" ELSE "Knight"]

\* Preferences at, below and above 1.0.
Preferences == {One, <<1, 2>>, <<3, 2>>}

\* Non-mate candidates, the settings and the position.
PieceArgs ==
    {<<NewMoveCandidate(score, << >>, isCapture, isCheck) @@ [FromSquare |-> square],
       [DefaultIntelligenceSettings EXCEPT !.IntelligenceEnabled = TRUE,
                                           !.CapturePreference = capture]
           @@ [PawnPreference |-> pawn, KnightPreference |-> knight],
       [validMoves |-> 20, board |-> Board]>> :
        score \in Scores, isCapture \in BOOLEAN, isCheck \in BOOLEAN,
        square \in DOMAIN Board, capture \in Preferences, pawn \in Preferences,
        knight \in Preferences}

InitPiece ==
    /\ InitIdleServer
    /\ InitManagerSide
    /\ InitEvaluatorSide
    /\ args \in PieceArgs
    /\ result = NoCall

NextPiece == Call_applyMultipliers

SpecPiece == InitPiece /\ [][NextPiece]_vars

\* Read-auth and the bypass are as the operator chose; -authwrite keeps its
\* default.
InitRead == Init /\ authManager.requireAuthWrite

\* Clients give the pass key or not, ask for the engine's name, subscribe and
\* unsubscribe while the engine writes info lines.
NextRead ==
    \/ \E c \in Conns :
          \/ Lifecycle(c)
          \/ SubCommands(c)
          \/ handleWhatEngine(c)
          \/ handleAuth(c, <<"auth", passKey>>)
    \/ Len(scanned) < MaxLines /\ readOutput(<<"info", "depth", "1">>)
    \/ OutputBridge

SpecRead == InitRead /\ [][NextRead]_vars

\* Clients send only the commands that touch their own session.  -authwrite
\* keeps its default.
InitSession == Init /\ authManager.requireAuthWrite

NextSession == \E c \in Conns : Lifecycle(c) \/ SessionCommands(c)

SpecSession == InitSession /\ [][NextSession]_vars

-----------------------------------------------------------------------------
(* Vocabulary of the claims *)

\* The goroutine of connection c takes this step.
Step(c) == pc'[c] # pc[c]

\* This step is the first one of HandleMessage on a message of connection c.
Receives(c) == pc[c] = "read" /\ Step(c) /\ pc'[c] # "remove"

\* c passes the write-auth check / the read-auth check.
WriteAllowed(c) == ~(authManager.requireAuthWrite /\ ~session[c].isAuthenticated)
ReadAllowed(c) == ~(authManager.requireAuthRead /\ ~session[c].isAuthenticated)

\* The engine lock as the manager and the sessions record it.
LockRecord == <<engineLocked, lockHolder, [c \in Conns |-> session[c].hasLock]>>

\* Connection c has passed the check of TryAcquireEngineLock and not yet returned.
Acquiring(c) == pc[c] \in {"acquire_locked", "acquire_holder", "acquire_session"}

\* Connection a was answered lockok, has since neither unlocked nor begun to
\* disconnect, and waits for its next message.
Granted(a) ==
    /\ a \in connections
    /\ session[a].hasLock
    /\ pc[a] = "read"

-----------------------------------------------------------------------------
(* C1: at most one registered session has its lock-held flag set at any    *)
(* time, and the manager records at most one holder.                       *)
C1_AtMostOneSessionHoldsLock ==
    /\ Cardinality({c \in connections : session[c].hasLock}) <= 1
    /\ lockHolder \in Conns \cup {NoConn}

(* C2: while a connection that was answered lockok holds the lock, a UCI   *)
(* command of any other connection is rejected (it gets an answer) and is  *)
(* not placed on the engine input queue.                                   *)
C2_LockRejectsUCIOfOthers ==
    [][\A c \in Conns :
          (/\ Receives(c)
           /\ cur'[c] \in UCIMsgs
           /\ \E a \in Conns \ {c} : Granted(a))
          => (reply'[c] # "" /\ engineInputChan' = engineInputChan)]_vars

(* C3: a lock command that passes the write-auth check is answered lockok  *)
(* iff the engine lock is free when TryAcquireEngineLock looks at it;      *)
(* while the lockok is on its way the manager's holder is that connection  *)
(* and its session's flag is set; a lockerr leaves the lock state as it    *)
(* was.                                                                    *)
C3_LockAnswer ==
    /\ [](\A c \in Conns :
            (pc[c] = "respond" /\ cur[c] = <<"lock">> /\ reply[c] = "lockok")
            => (engineLocked /\ lockHolder = c /\ session[c].hasLock))
    /\ [][\A c \in Conns :
            (pc[c] = "acquire" /\ Step(c))
            => /\ Acquiring(c)' <=> ~engineLocked
               /\ ~Acquiring(c)' => (reply'[c] = "lockerr" /\ LockRecord' = LockRecord)]_vars

(* C4 as stated: an unlock command from a connection that is not the       *)
(* current lock holder is answered unlockerr, and its handling leaves the  *)
(* manager's locked flag, the holder and every session's flag unchanged.   *)
C4_NonHolderUnlock_AsStated ==
    [][\A c \in Conns :
          (Step(c) /\ cur'[c] = <<"unlock">> /\ ~heldAtRecv'[c])
          => /\ LockRecord' = LockRecord
             /\ pc'[c] = "respond" => reply'[c] = "unlockerr"]_vars

(* C4 as amended: the same, for a connection that passes the write-auth    *)
(* check (one that does not is answered autherr).                          *)
C4_NonHolderUnlock ==
    [][\A c \in Conns :
          (Step(c) /\ cur'[c] = <<"unlock">> /\ ~heldAtRecv'[c])
          => /\ LockRecord' = LockRecord
             /\ pc'[c] = "respond"
                  => reply'[c] = IF WriteAllowed(c) THEN "unlockerr" ELSE "autherr"]_vars

\* B's unlock fails while another connection holds the lock.
C4_Witness ==
    \E c \in Conns :
        /\ pc[c] = "respond" /\ cur[c] = <<"unlock">> /\ reply[c] = "unlockerr"
        /\ engineLocked /\ lockHolder \in connections \ {c}

(* C5: a connection that was answered lockok and has not unlocked since is *)
(* answered unlockok when it sends unlock; and while that unlockok is on   *)
(* its way the lock is free for the next lock command of another           *)
(* connection, unless another connection has taken it already.             *)
C5_HolderUnlockSucceeds ==
    \A c \in Conns :
        /\ (pc[c] = "respond" /\ cur[c] = <<"unlock">> /\ session[c].hasLock)
             => reply[c] = "unlockok"
        /\ (pc[c] = "respond" /\ cur[c] = <<"unlock">> /\ reply[c] = "unlockok")
             => (engineLocked => \E a \in Conns \ {c} : Acquiring(a) \/ session[a].hasLock)

(* C6: when the connection that holds the engine lock is removed, the lock *)
(* is free once RemoveConnection returns, unless another connection has    *)
(* taken it in the meantime.                                               *)
C6_HolderDisconnectFreesLock ==
    [][\A c \in Conns :
          (pc[c] = "remove_delete" /\ pc'[c] = "closed" /\ session[c].hasLock)
          => (engineLocked' => \E a \in Conns \ {c} : Acquiring(a) \/ session[a].hasLock)]_vars

(* C7: once a session has three failed auth attempts, it keeps them for    *)
(* the rest of the connection (a successful auth in between resets         *)
(* nothing), and every later auth command on it is answered autherr,       *)
(* whatever key it presents, and changes nothing in the session.           *)
C7_LockoutIsPermanent ==
    [][\A c \in Conns :
          (pc[c] # "closed" /\ session[c].incorrectAttempts >= 3)
          => /\ pc'[c] # "closed" => session'[c].incorrectAttempts >= 3
             /\ (Receives(c) /\ cur'[c] \in AuthMsgs)
                  => (reply'[c] = "autherr" /\ session'[c] = session[c])]_vars

\* The correct passkey is refused on a session that authenticated before
\* its third failure.
C7_Witness ==
    \E c \in Conns :
        /\ pc[c] = "respond" /\ cur[c] = <<"auth", passKey>> /\ reply[c] = "autherr"
        /\ session[c].incorrectAttempts = 3
        /\ session[c].isAuthenticated

(* C8: when write-auth is required, a lock, an unlock or a UCI text from a *)
(* session that is not authenticated is answered autherr at once and       *)
(* leaves the engine input queue and the lock state unchanged.             *)
C8_UnauthenticatedWriteRefused ==
    [][\A c \in Conns :
          (/\ Receives(c)
           /\ cur'[c] \in {<<"lock">>, <<"unlock">>} \cup UCIMsgs
           /\ authManager.requireAuthWrite
           /\ ~session[c].isAuthenticated)
          => /\ pc'[c] = "respond" /\ reply'[c] = "autherr"
             /\ engineInputChan' = engineInputChan
             /\ LockRecord' = LockRecord]_vars

\* A UCI text is refused while the queue has room and the session has
\* already failed an auth attempt.
C8_Witness ==
    \E c \in Conns :
        /\ pc[c] = "respond" /\ cur[c] \in UCIMsgs /\ reply[c] = "autherr"
        /\ Len(engineInputChan) < InputChanCap
        /\ session[c].incorrectAttempts > 0

(* C9: a session that is authenticated stays authenticated as long as its  *)
(* connection lasts, whatever it sends.                                    *)
C9_AuthenticationIsOneWay ==
    [][\A c \in Conns :
          (pc[c] # "closed" /\ pc'[c] # "closed" /\ session[c].isAuthenticated)
          => session'[c].isAuthenticated]_vars

\* An authenticated session reaches the three-failure lockout and is still
\* authenticated; it holds the engine lock meanwhile.
C9_Witness ==
    \E c \in Conns :
        /\ session[c].isAuthenticated
        /\ session[c].incorrectAttempts = 3
        /\ session[c].hasLock
        /\ pc[c] = "respond" /\ reply[c] = "autherr"

(* C10: for a session that passes the read-auth check, sub is answered     *)
(* subok exactly when the session is unsubscribed, and leaves it           *)
(* subscribed; unsub is answered unsubok exactly when it is subscribed,    *)
(* and leaves it unsubscribed; suberr and unsuberr leave the flag as it    *)
(* was.                                                                    *)
C10_SubscribeAnswers ==
    [][\A c \in Conns :
          /\ (Receives(c) /\ cur'[c] = <<"sub">> /\ ReadAllowed(c))
               => IF session[c].isSubscribed
                    THEN /\ pc'[c] = "respond" /\ reply'[c] = "suberr"
                         /\ session'[c] = session[c]
                    ELSE /\ pc'[c] = "count"
                         /\ session'[c].isSubscribed
          /\ (Receives(c) /\ cur'[c] = <<"unsub">> /\ ReadAllowed(c))
               => IF ~session[c].isSubscribed
                    THEN /\ pc'[c] = "respond" /\ reply'[c] = "unsuberr"
                         /\ session'[c] = session[c]
                    ELSE /\ pc'[c] = "count"
                         /\ ~session'[c].isSubscribed
          /\ (pc[c] = "count" /\ Step(c))
               => /\ pc'[c] = "respond"
                  /\ session'[c] = session[c]
                  /\ reply'[c] = IF cur[c] = <<"sub">> THEN "subok" ELSE "unsubok"
                  /\ session[c].isSubscribed <=> cur[c] = <<"sub">>]_vars

\* The second of two subs in a row is answered suberr.
C10_Witness ==
    \E c \in Conns :
        /\ pc[c] = "respond" /\ cur[c] = <<"sub">> /\ reply[c] = "suberr"
        /\ session[c].isSubscribed

-----------------------------------------------------------------------------
(* Vocabulary of the claims about the output path *)

\* BroadcastToSubscribers is ranging over the connections.
Broadcasting == bridge.pc \in {"range", "send"}

\* This step of the range visits connection c.
Visits(c) == bridge.pc = "range" /\ c \in bridge.todo /\ c \notin bridge'.todo

\* This step writes an engine line to the socket of connection c.
Delivers(c) == bridge.pc = "send" /\ bridge.conn = c /\ lastLine'[c] # lastLine[c]

(* C11: a broadcast ranges over exactly the registered connections; each   *)
(* one whose session is subscribed when the range reaches it has a Send    *)
(* attempted; and whether that Send succeeds or fails, the range goes on   *)
(* with the same line and the same connections still to visit, and ends    *)
(* only when none is left.                                                 *)
C11_BroadcastReachesEverySubscriber ==
    /\ [](Broadcasting => bridge.todo \subseteq connections)
    /\ [][
          /\ (bridge.pc = "rlock" /\ bridge'.pc # "rlock")
                => (bridge'.pc = "range" /\ bridge'.todo = connections)
          /\ Broadcasting => (connections' = connections)
          /\ \A c \in Conns :
                (Visits(c) /\ session[c].isSubscribed)
                => (bridge'.pc = "send" /\ bridge'.conn = c /\ bridge'.line = bridge.line)
          /\ (bridge.pc = "send" /\ bridge' # bridge)
                => (/\ bridge'.pc = "range"
                    /\ bridge'.todo = bridge.todo
                    /\ bridge'.line = bridge.line)
          /\ (Broadcasting /\ ~Broadcasting') => (bridge.pc = "range" /\ bridge.todo = {})
       ]_vars

\* The Send to one subscriber has failed and the same line is on its way to
\* another.
C11_Witness ==
    /\ bridge.pc = "send"
    /\ bridge.warned # {}
    /\ bridge.conn \notin bridge.warned
    /\ \A c \in bridge.warned : session[c].isSubscribed /\ lastLine[c] < bridge.line.n

(* C12: once unsubok has been written to a connection's socket, no engine  *)
(* line is written to it until a sub command of that connection has        *)
(* subscribed it again.                                                    *)
C12_NoLineAfterUnsubok ==
    [][\A c \in Conns : Delivers(c) => ~unsubAcked[c]]_vars

(* C13: the engine lines written to one socket are lines the subprocess    *)
(* wrote, with their text, each later in the subprocess's output than the  *)
(* one written to that socket before it.                                   *)
C13_LinesInEmissionOrder ==
    [][\A c \in Conns :
          Delivers(c)
          => /\ lastLine'[c] = bridge.line.n
             /\ lastLine'[c] > lastLine[c]
             /\ bridge.line.n \in 1..Len(scanned)
             /\ bridge.line.text = scanned[bridge.line.n]]_vars

\* Connection c is registered, its goroutine is in the message loop and its
\* session is subscribed.
Listening(c) ==
    /\ c \in connections
    /\ pc[c] \notin {"closed", "remove", "remove_locked", "remove_holder", "remove_unlocked",
                     "remove_nil", "remove_delete"}
    /\ session[c].isSubscribed

\* Line n of the subprocess's output is a bestmove line.
IsBestmove(n) == n <= Len(scanned) /\ scanned[n][1] = "bestmove"

\* Line n waits in the output channel.
InOutputChan(n) == \E i \in 1..Len(outputChan) : outputChan[i].n = n

(* C14: if connection c is subscribed when the subprocess is about to      *)
(* write its n-th line, that line is a bestmove line and c stays           *)
(* subscribed and connected, then the line is eventually written to c's    *)
(* socket.                                                                 *)
C14_BestmoveEventuallyDelivered ==
    \A c \in Conns : \A n \in (StartupLines + 1)..(StartupLines + MaxLines) :
        []((Len(scanned) = n - 1 /\ Listening(c))
             => (\/ <>(~Listening(c))
                 \/ <>(lastLine[c] = n)
                 \/ [](~IsBestmove(n))))

(* C14 for the lines that found room: a bestmove line that readOutput has  *)
(* placed on the output channel is eventually written to the socket of a   *)
(* connection that is subscribed while the line waits there and stays      *)
(* subscribed and connected.                                               *)
C14_QueuedBestmoveDelivered ==
    \A c \in Conns : \A n \in (StartupLines + 1)..(StartupLines + MaxLines) :
        []((InOutputChan(n) /\ IsBestmove(n) /\ Listening(c))
             => (<>(~Listening(c)) \/ <>(lastLine[c] = n)))

-----------------------------------------------------------------------------
(* Vocabulary of the claims about the input path *)

\* The texts of sender c in a channel, as their numbers, in channel order.
RECURSIVE NumbersOf(_, _)
NumbersOf(c, chan) ==
    IF chan = << >> THEN << >>
    ELSE IF Head(chan)[2] = c THEN <<Head(chan)[3]>> \o NumbersOf(c, Tail(chan))
    ELSE NumbersOf(c, Tail(chan))

\* What of sender c is on its way to stdin, oldest first.
Pipeline(c) == NumbersOf(c, inputChan) \o NumbersOf(c, engineInputChan)

\* The members of a sequence.
Range(seq) == {seq[i] : i \in 1..Len(seq)}

(* C15: a UCI text of a connection that passes the write-auth check gets   *)
(* no reply, whether engineInputChan takes it or is full and it is         *)
(* dropped; a goroutine waiting for a message can always take that step,   *)
(* whatever the channel holds; and nothing is written to the socket for    *)
(* it.                                                                     *)
C15_NoReplyToUCIText ==
    /\ [](\A c \in Conns :
            /\ pc[c] = "read" => ENABLED handleUCICommand(c, Cmd(c, 1))
            /\ (pc[c] = "respond" /\ reply[c] = "") => ~ENABLED SendFailed(c))
    /\ [][\A c \in Conns :
            (Receives(c) /\ cur'[c][1] = "position" /\ WriteAllowed(c))
            => /\ pc'[c] = "respond"
               /\ reply'[c] = ""
               /\ engineInputChan' = IF Len(engineInputChan) < InputChanCap
                                        THEN Append(engineInputChan, cur'[c])
                                        ELSE engineInputChan]_vars

\* A text was dropped at the full channel (it is not behind the older texts
\* still waiting there) and its sender is back in the loop with no reply.
C15_Witness ==
    \E c \in Conns :
        /\ pc[c] = "respond" /\ reply[c] = ""
        /\ cur[c] = Cmd(c, sent[c])
        /\ authManager.requireAuthWrite
        /\ Len(engineInputChan) = InputChanCap
        /\ Head(engineInputChan) = Cmd(NoConn, 0)
        /\ cur[c] \notin Range(engineInputChan)

(* C16: for every sender, what is on its way to stdin is in the order it   *)
(* was sent, behind what has been written; each text written to stdin is   *)
(* a later one of its sender than the one written before; and a text       *)
(* leaves the path unwritten only at a full channel (or with the write     *)
(* error that ends the writer).                                            *)
C16_InputOrderPerSender ==
    /\ [](\A c \in Conns :
            /\ \A i \in 1..Len(Pipeline(c)) :
                  /\ Pipeline(c)[i] \in (lastWritten[c] + 1)..sent[c]
                  /\ \A j \in 1..(i - 1) : Pipeline(c)[j] < Pipeline(c)[i])
    /\ [][
          /\ \A c \in Conns :
                lastWritten'[c] # lastWritten[c]
                => (/\ lastWritten'[c] > lastWritten[c]
                    /\ Head(inputChan) = Cmd(c, lastWritten'[c]))
          /\ \A c \in Conns :
                (Receives(c) /\ cur'[c][1] = "position" /\ WriteAllowed(c))
                => (\/ engineInputChan' = Append(engineInputChan, cur'[c])
                    \/ (/\ Len(engineInputChan) = InputChanCap
                        /\ engineInputChan' = engineInputChan))
          /\ (Len(engineInputChan') < Len(engineInputChan))
                => (/\ engineInputChan' = Tail(engineInputChan)
                    /\ \/ inputChan' = Append(inputChan, Head(engineInputChan))
                       \/ (Len(inputChan) = EngineInputCap /\ inputChan' = inputChan))
          /\ (Len(inputChan') < Len(inputChan))
                => (/\ inputChan' = Tail(inputChan)
                    /\ \/ lastWritten'[Head(inputChan)[2]] = Head(inputChan)[3]
                       \/ writer' = "stopped")
       ]_vars

\* The second text of a sender is next to be written, its first one was
\* dropped.
C16_Witness ==
    \E c \in Conns :
        /\ inputChan # << >>
        /\ Head(inputChan) = Cmd(c, 2)
        /\ lastWritten[c] = 0
        /\ writer = "running"

\* A connection gets the second line right after the first while another
\* one has missed the first.
C13_Witness ==
    \E c \in Conns : \E d \in Conns \ {c} :
        /\ lastLine[c] = 2
        /\ lastLine[d] = 0 /\ session[d].isSubscribed
        /\ bridge.pc = "send" /\ bridge.conn = d /\ bridge.line.n = 2

\* C17: when SetActiveEngine has returned a start or initialize failure after
\* stopping the previously active engine, the manager has no active engine, and
\* the GetActiveEngine and SendCommand calls that follow answer "no active
\* engine".
FailedSwitch ==
    /\ managerIdle
    /\ switch.err \in {"failed to start engine", "failed to initialize engine"}
    /\ switch.stopped # NoEngine

C17_FailedSwitchLeavesNoActiveEngine ==
    FailedSwitch =>
        /\ manager.activeEngine = NoEngine
        /\ answer.call \in {"GetActiveEngine", "SendCommand"}
              => answer.err = "no active engine"

\* The goroutine of connection c takes a step of RemoveConnection(c).
Removing(c) ==
    /\ pc[c] \in {"remove", "remove_locked", "remove_holder", "remove_unlocked",
                  "remove_nil", "remove_delete"}
    /\ Step(c)

\* The step leaves connection d registered, with its authenticated flag, its
\* failed-attempt counter and its subscribed flag.
Untouched(d) ==
    /\ d \in connections => d \in connections'
    /\ session'[d].isAuthenticated = session[d].isAuthenticated
    /\ session'[d].incorrectAttempts = session[d].incorrectAttempts
    /\ session'[d].isSubscribed = session[d].isSubscribed

\* C18 (first half): a step of the removal of c leaves every other connection
\* untouched.
C18_RemovalLeavesOthers ==
    [][\A c \in Conns : Removing(c) => \A d \in Conns \ {c} : Untouched(d)]_vars

\* C18: a step of the removal of c leaves every other connection untouched, and
\* leaves the engine lock state as it is unless c is the lock holder.
C18_RemovalTouchesOnlyItsOwn ==
    [][
        \A c \in Conns : Removing(c) =>
            /\ \A d \in Conns \ {c} : Untouched(d)
            /\ (<<engineLocked, lockHolder>>' # <<engineLocked, lockHolder>>) => (lockHolder = c)
    ]_vars

\* C19: the list ApplyIntelligence returns is as long as the list it was given.
C19_SameLength ==
    [][passes' # passes => Len(returned'.list) = Len(candidates)]_vars

\* The fallback was taken on a list of two candidates.
C19_Witness ==
    /\ passes > 0
    /\ returned.slice = "originalCandidates"
    /\ Len(candidates) = 2
    /\ Len(returned.list) = 2

\* C20: with intelligence enabled, the returned list is in descending order of
\* modified score, so a forced mate with a mating score stands before every
\* candidate that is not a forced mate.
Descending(list) ==
    \A i \in 1..Len(list) : \A j \in 1..Len(list) :
        i < j => LessEq(list[j].ScorePawns, list[i].ScorePawns)

MatesFirst(list) ==
    \A i \in 1..Len(list) : \A j \in 1..Len(list) :
        (/\ IsForcedMate(list[j].MateIn)
         /\ list[j].MateIn[1] > 0
         /\ ~IsForcedMate(list[i].MateIn)) => j < i

C20_ReturnedDescending ==
    (passes > 0 /\ settings.IntelligenceEnabled) =>
        Descending(returned.list) /\ MatesFirst(returned.list)

\* The step is a call of ApplyIntelligence.
Evaluates == passes' # passes

\* C21: a modification of a candidate not modified before stores the score it
\* had; a modification of a candidate modified before leaves the stored
\* original score as it is.
C21_OriginalScoreWrittenOnce ==
    [][
        Evaluates => \A i \in 1..Len(candidates) :
            /\ (~candidates[i].IntelligenceModified /\ candidates'[i].IntelligenceModified)
                  => (candidates'[i].OriginalScorePawns = candidates[i].ScorePawns)
            /\ candidates[i].IntelligenceModified
                  => (candidates'[i].OriginalScorePawns = candidates[i].OriginalScorePawns)
    ]_vars

\* A candidate whose first modification changed its score has been modified a
\* second time.
C21_Witness ==
    /\ passes = 2
    /\ \E i \in 1..Len(candidates) :
          /\ candidates[i].IntelligenceModified
          /\ candidates[i].OriginalScorePawns # Zero
          /\ candidates[i].IntelligenceMultiplier # One

\* C22: in a non-critical position applyChessMultiplier returns e when m = 1
\* or e = 0, else e * m for e > 0 and e / m for e < 0.
C22_SignAware ==
    (result.fn = "applyChessMultiplier" /\ ~args.isCritical) =>
        result.value =
            IF args.multiplier = One \/ args.eval = Zero THEN args.eval
            ELSE IF args.eval[1] > 0 THEN Times(args.eval, args.multiplier)
            ELSE Over(args.eval, args.multiplier)

\* -0.5 with multiplier 1.5 gave -1/3.
C22_Witness ==
    /\ result.fn = "applyChessMultiplier"
    /\ args = [eval |-> <<-1, 2>>, multiplier |-> <<3, 2>>, isCritical |-> FALSE]
    /\ result.value = <<-1, 3>>

\* The multiplier m as a critical position damps it.
Damped(m) ==
    IF m[1] > m[2] THEN Plus(One, Times(Minus(m, One), <<3, 10>>))
    ELSE IF m[1] < m[2] THEN Minus(One, Times(Minus(One, m), <<3, 10>>))
    ELSE m

\* C23: applyChessMultiplier applies the damped multiplier in a critical
\* position and the multiplier itself otherwise, and ApplyMultiplierReduction
\* returns that same multiplier.
C23_CriticalDamping ==
    LET m == IF args.isCritical THEN Damped(args.multiplier) ELSE args.multiplier
    IN  /\ result.fn = "ApplyMultiplierReduction" => result.value = m
        /\ result.fn = "applyChessMultiplier" =>
             result.value = IF args.eval[1] > 0 THEN Times(args.eval, m)
                            ELSE Over(args.eval, m)

\* In a critical position 2.0 was applied as 1.3 and 0.5 reduced to 0.85.
C23_Witness ==
    \/ /\ result.fn = "applyChessMultiplier"
       /\ args = [eval |-> <<1, 1>>, multiplier |-> <<2, 1>>, isCritical |-> TRUE]
       /\ result.value = <<13, 10>>
    \/ /\ result.fn = "ApplyMultiplierReduction"
       /\ args.multiplier = <<1, 2>> /\ args.isCritical
       /\ result.value = <<17, 20>>

\* The threshold t brought into [-3.0, -1.0].
ClampedInto(t) ==
    IF Less(t, <<-3, 1>>) THEN <<-3, 1>> ELSE IF Less(<<-1, 1>>, t) THEN <<-1, 1>> ELSE t

\* C24: with avoidance enabled, the call returns the untouched copy if and
\* only if the highest modified score of the list is at most the clamped
\* threshold.
C24_FallbackIffBestBelowThreshold ==
    [][
        (Evaluates /\ settings.IntelligenceEnabled /\ settings.AvoidLowIntelligence) =>
            ((returned'.slice = "originalCandidates") <=>
                /\ Len(candidates') > 0
                /\ \A i \in 1..Len(candidates') :
                      LessEq(candidates'[i].ScorePawns,
                             ClampedInto(settings.LowIntelligenceThreshold)))
    ]_vars

\* C25: when the file and the command line both give a value for a setting,
\* the configuration has the value of the command line.
C25_FlagOverridesFile ==
    (result.fn = "loadConfiguration" /\ args.file # << >> /\ args.flag # << >>) =>
        result.value = args.flag[1]

\* HandleWebSocket registers connection c at this step.
Connects(c) == pc[c] = "closed" /\ pc'[c] = "read"

ReadCommands == {<<"whatengine">>, <<"sub">>, <<"unsub">>}

\* C27: with read-auth required, a read command of an unauthenticated session
\* is answered autherr and leaves the session as it is, only authenticated
\* sessions are subscribed, and engine lines go to authenticated sessions
\* only; without read-auth no read command is answered autherr.
C27_ReadAuth ==
    /\ [](authManager.requireAuthRead =>
            \A c \in Conns : session[c].isSubscribed => session[c].isAuthenticated)
    /\ [][
          \A c \in Conns :
             /\ (Receives(c) /\ cur'[c] \in ReadCommands /\ ~ReadAllowed(c))
                  => (/\ pc'[c] = "respond"
                      /\ reply'[c] = "autherr"
                      /\ session'[c] = session[c])
             /\ (Receives(c) /\ cur'[c] \in ReadCommands /\ ~authManager.requireAuthRead)
                  => ~(pc'[c] = "respond" /\ reply'[c] = "autherr")
             /\ (Delivers(c) /\ authManager.requireAuthRead)
                  => session[c].isAuthenticated
       ]_vars

\* With read-auth required, an unauthenticated session's sub was answered
\* autherr after an authenticated one was sent an engine line.
C27_Witness ==
    \E c \in Conns : \E d \in Conns \ {c} :
        /\ authManager.requireAuthRead
        /\ pc[c] = "respond" /\ cur[c] = <<"sub">> /\ reply[c] = "autherr"
        /\ ~session[c].isAuthenticated /\ ~session[c].isSubscribed
        /\ session[d].isAuthenticated /\ lastLine[d] > 0

\* The commands of list that set the option name.
Setting(list, name) == SelectSeq(list, LAMBDA cmd : cmd.name = name)

\* C28: the list is the MultiPV command if MultiPV > 1, the Threads command if
\* Threads > 1, the Hash command if Hash > 0, in this order, and then the
\* user's commands in their order.
C28_PreparedArgs ==
    result.fn = "prepareUCIArgs" =>
        LET own == Len(result.value) - Len(args.UCIArgs)
            head == SubSeq(result.value, 1, own)
        IN  /\ own >= 0
            /\ \A i \in 1..own : head[i].name \in {"MultiPV", "Threads", "Hash"}
            /\ SubSeq(result.value, own + 1, Len(result.value)) = args.UCIArgs
            /\ \A i \in 1..own : \A j \in 1..own :
                  (i < j) =>
                     <<head[i].name, head[j].name>> \in
                        {<<"MultiPV", "Threads">>, <<"MultiPV", "Hash">>, <<"Threads", "Hash">>}
            /\ Setting(head, "MultiPV") =
                  IF args.MultiPV > 1 THEN <<setoption("MultiPV", args.MultiPV)>> ELSE << >>
            /\ Setting(head, "Threads") =
                  IF args.Threads > 1 THEN <<setoption("Threads", args.Threads)>> ELSE << >>
            /\ Setting(head, "Hash") =
                  IF args.Hash > 0 THEN <<setoption("Hash", args.Hash)>> ELSE << >>

\* All three options and two different user commands were given.
C28_Witness ==
    /\ result.fn = "prepareUCIArgs"
    /\ args.MultiPV > 1 /\ args.Threads > 1 /\ args.Hash > 0
    /\ Len(args.UCIArgs) = 2 /\ args.UCIArgs[1] # args.UCIArgs[2]
    /\ Len(result.value) = 5

\* C29: while the replacement is about to start, the engine active before is
\* stopped; the active engine changes only at the successful return of
\* Initialize, after Start, and becomes the requested one; and a request for
\* a type that is not registered returns an error and leaves the manager and
\* every engine as they are.
C29_SwitchIsOrdered ==
    /\ []((switch.pc = "start" /\ manager.activeEngine # NoEngine) =>
            (/\ engineState[manager.activeEngine] = "stopped"
             /\ switch.stopped = manager.activeEngine))
    /\ [][
          /\ (manager' # manager) =>
                (/\ switch.pc = "initialize"
                 /\ engineState[switch.engineType] \in {"running", "restarted"}
                 /\ switch'.pc = "idle" /\ switch'.err = ""
                 /\ manager'.engines = manager.engines
                 /\ manager'.activeEngine = switch.engineType
                 /\ manager'.activeType = switch.engineType)
             \/ (answer'.call = "RegisterEngine" /\ manager'.activeEngine = manager.activeEngine)
          /\ (managerIdle /\ answer' = NoAnswer /\ switch'.engineType \notin manager.engines) =>
                (/\ switch'.pc = "idle"
                 /\ switch'.err = "not registered"
                 /\ manager' = manager
                 /\ engineState' = engineState)
       ]_vars

\* The manager has switched from stockfish to leela.
C29_Witness ==
    /\ managerIdle /\ switch.err = ""
    /\ switch.stopped = "stockfish"
    /\ manager.activeEngine = "leela" /\ manager.activeType = "leela"
    /\ engineState["stockfish"] = "stopped"
    /\ engineState["leela"] = "running"

\* C30: when Initialize has returned nil, the input channel has taken uci,
\* then every non-empty command of uciArgs in their order, then isready.
C30_InitializeQueuesAll ==
    (Initializing("returned") /\ result.value.err = "") =>
        result.value.queued =
            <<UCI>> \o SelectSeq(args, LAMBDA arg : arg[1] # "") \o <<IsReady>>

\* C31: when Stop has returned, quit has been written to the subprocess and
\* the reader and the writer goroutine have both returned.
C31_StopJoinsBothLoops ==
    uciEngine.Stop = "returned" =>
        /\ uciEngine.stdin = "quit"
        /\ uciEngine.reader = "returned"
        /\ writer = "stopped"

\* C40: under fair scheduling, with a subprocess that exits once it reads
\* quit, a Stop that was called returns.
C40_StopReturns == (uciEngine.Stop = "close") ~> (uciEngine.Stop = "returned")

\* The names the subprocess has announced, in order.
Announced ==
    LET lines == SelectSeq(scanned, LAMBDA text : Len(text) = 3 /\ text[1] = "id"
                                                  /\ text[2] = "name")
    IN  [i \in 1..Len(lines) |-> lines[i][3]]

\* C32: the engine's name is the first one the subprocess announced, and
\* neither the MessageHandler's name nor a whatengine answer carries a later
\* one.
C32_NameIsFirstAnnounced ==
    /\ uciEngine.engineName = IF Announced = << >> THEN "" ELSE Announced[1]
    /\ \A i \in 2..Len(Announced) :
          Announced[i] # Announced[1] =>
              /\ engineName # Announced[i]
              /\ \A c \in Conns : reply[c] # "engine " \o Announced[i]

\* The steps of the goroutine serving connection c, and of the output bridge
\* once it has a line.
Runs(c) == Lifecycle(c) \/ RemoveHeld(c) \/ LockCommands(c) \/ SubCommands(c)
Started_Operation(c) == pc[c] \notin {"closed", "read"}
Broadcasts == bridge.pc # "recv"

\* A mutex of the ConnectionManager is held.
MutexHeld == engineLock # NoConn \/ mu # NoConn \/ muReadHeld

\* C33: an operation that cannot take its next step is waiting for a mutex,
\* and whenever operations are under way one of them can take a step: no set
\* of operations waits on each other.
C33_NoDeadlock ==
    /\ \A c \in Conns : (Started_Operation(c) /\ ~ENABLED Runs(c)) => MutexHeld
    /\ (Broadcasts /\ ~ENABLED OutputBridge) => MutexHeld
    /\ ((\E c \in Conns : Started_Operation(c)) \/ Broadcasts) =>
           \/ \E c \in Conns : Started_Operation(c) /\ ENABLED Runs(c)
           \/ Broadcasts /\ ENABLED OutputBridge

\* A lock command holds engineLock and waits for the registry mutex, which a
\* disconnect holds, while the bridge waits for it too.
C33_Witness ==
    \E c, d \in Conns :
        /\ pc[c] = "acquire_session" /\ engineLock = c
        /\ mu = d /\ d # c
        /\ bridge.pc = "rlock"

\* C34: a call that takes the avoidance fallback leaves the caller's
\* candidates as they were and returns a list with those same values.
C34_FallbackLeavesInputs ==
    [][
        (Evaluates /\ returned'.slice = "originalCandidates") =>
            /\ candidates' = candidates
            /\ returned'.list = candidates
    ]_vars

\* The preference of IntelligenceSettings for the piece that stands on the
\* square the candidate moves from.
PiecePreference(candidate, s, g) ==
    IF g.board[candidate.FromSquare] = "Pawn" THEN s.PawnPreference ELSE s.KnightPreference

\* C35: the multiplier recorded for a non-mate candidate is the preference
\* for the moved piece times the preferences for the characteristics the
\* candidate has.
C35_MultiplierIsProduct ==
    result.fn = "applyMultipliers" =>
        result.value.IntelligenceMultiplier =
            Times(PiecePreference(args[1], args[2], args[3]),
                  Times(IF args[1].IsCapture THEN args[2].CapturePreference ELSE One,
                        IF args[1].IsCheck THEN args[2].AggressivenessContempt ELSE One))

\* C36: an evaluation with intelligence enabled gives every candidate with a
\* non-zero mate-in value the score +1000 pawns, +100000 centipawns (mate-in
\* positive) or -1000 and -100000 (negative), whatever the preferences and
\* the position are, and the evaluated list carries it when it is the one
\* returned; with intelligence disabled the call returns the caller's list
\* and changes nothing.
C36_MateScoreIsAbsolute ==
    [][
        Evaluates =>
            IF settings.IntelligenceEnabled
            THEN \A i \in 1..Len(candidates) :
                    LET mateIn == candidates[i].MateIn
                        pawns == IF mateIn[1] > 0 THEN 1000 ELSE -1000
                    IN  (mateIn # << >> /\ mateIn[1] # 0) =>
                            /\ candidates'[i].ScorePawns = <<pawns, 1>>
                            /\ candidates'[i].ScoreCP = 100 * pawns
                            /\ returned'.slice = "candidates" =>
                                   returned'.list[i] = candidates'[i]
            ELSE /\ returned' = [list |-> candidates, slice |-> "candidates"]
                 /\ candidates' = candidates
    ]_vars

\* A capture that is mated in two has been evaluated in a critical position
\* under a capture preference of 2.0.
C36_Witness ==
    /\ passes > 0
    /\ settings.IntelligenceEnabled
    /\ settings.CapturePreference = <<2, 1>>
    /\ game.validMoves = 2
    /\ \E i \in 1..Len(candidates) :
          /\ candidates[i].MateIn = <<-2>>
          /\ candidates[i].IsCapture
          /\ candidates[i].ScoreCP = -100000

\* No goroutine is inside an operation of the ConnectionManager.
Quiet == engineLock = NoConn /\ mu = NoConn /\ \A c \in Conns : pc[c] \in {"closed", "read"}

\* C37: between operations the engine is locked exactly if the recorded
\* holder is a registered connection whose session holds the lock.
C37_LockedIffHolderRegistered ==
    Quiet => (engineLocked <=> (/\ lockHolder \in connections
                                /\ session[lockHolder].hasLock))

\* C38: an auth command without a key is answered autherr and leaves the
\* session as it was; the failed-attempt counter goes up only by one, on an
\* auth command whose key is not the passkey, on a session that is not
\* blocked; it never exceeds three.
C38_OnlyWrongKeysCount ==
    /\ [](\A c \in Conns : session[c].incorrectAttempts <= 3)
    /\ [][\A c \in Conns :
            /\ (Receives(c) /\ cur'[c] = <<"auth">>)
                 => (reply'[c] = "autherr" /\ session'[c] = session[c])
            /\ session'[c].incorrectAttempts > session[c].incorrectAttempts
                 => /\ Receives(c)
                    /\ cur'[c] \in AuthMsgs /\ Len(cur'[c]) >= 2 /\ cur'[c][2] # passKey
                    /\ session[c].incorrectAttempts < 3
                    /\ session'[c] = [session[c] EXCEPT !.incorrectAttempts = @ + 1]
       ]_vars

\* An auth command without a key has been refused on a session with two
\* failed attempts, which it still has.
C38_Witness ==
    \E c \in Conns :
        /\ pc[c] = "respond" /\ cur[c] = <<"auth">> /\ reply[c] = "autherr"
        /\ session[c].incorrectAttempts = 2

\* C39: on an engine that was stopped and started again the reader and the
\* writer goroutine run until Stop is called, neither the reader nor a later
\* Stop fails, and a command the engine was sent while it runs is written to
\* the subprocess or still waits for the running writer.
C39_RestartedEngineWorks ==
    uciEngine.starts > 1 =>
        /\ uciEngine.reader # "panicked"
        /\ uciEngine.Stop # "panicked"
        /\ uciEngine.Stop = "idle" => (uciEngine.reader = "running" /\ writer = "running")

====
